---------------------------- MODULE Spec2Model ----------------------------
(***************************************************************************)
(* STARCOS SPK 2.3 card driver (src/libopensc/card-starcos.c) as a state   *)
(* machine.  The state is the card handle (path cache, cache_valid, the    *)
(* cached serial number, the driver's extension state) together with the   *)
(* part of the card's own state the driver shadows (the DF and EF that are *)
(* currently selected on the device).  Every driver operation is one       *)
(* action: it runs the whole handler, every APDU exchange included, and    *)
(* records the call, its return value and the APDUs it transmitted in      *)
(* `last', which the caller holds until it goes on (Resume): the driver is *)
(* single-threaded per handle, the next call starts after the caller has   *)
(* the result.  A handler is an operator from a machine record to the set  *)
(* of its possible results, one result per way the transport and the card *)
(* can answer the APDUs it sends.                                          *)
(*                                                                         *)
(* Abstractions: bit masks (env->flags, env->algorithm_flags,              *)
(* fix_digestInfo) are sets of flag names, `x & F' being `F \in x' and     *)
(* `x == 0' being `x = {}'; error codes are their names; a cached path     *)
(* keeps only the `len' bytes the code ever reads of its value array;      *)
(* sc_file_new() never runs out of memory; a file's ACL is, per operation, *)
(* the list of its entries; the card's serial number fits the handle's     *)
(* buffer and a generated key's modulus fits the response buffer.          *)
(***************************************************************************)
EXTENDS Integers, Sequences, FiniteSets, TLC

VARIABLES
    cache,        \* card->cache: [current_path |-> [type, len, value]]
    cache_valid,  \* card->cache_valid
    ex_data,      \* card->drv_data: [sec_ops, fix_digestInfo]
    serialnr,     \* card->serialnr: [len, value]
    dev,          \* the card itself: [df, ef], the DF and EF selected on it
    env_fresh,    \* history: a SIGN/AUTHENTICATE environment was installed
                  \* and no compute_signature has returned since
    serial_first, \* history: the serial number the first get_serialnr that
                  \* succeeded returned, in a sequence, empty before
    last          \* the call that has just returned and what it did, or idle

vars == <<cache, cache_valid, ex_data, serialnr, dev, env_fresh, serial_first, last>>

---------------------------------------------------------------------------
(* Bounds of the model *)

\* longest input path handed to select_file, in FIDs
MaxPathFids == 4
\* longest key handed to write_key, in bytes
MaxKeyLen == 250

---------------------------------------------------------------------------
(* Names of the framework's codes used by the driver *)

SC_SUCCESS == "SC_SUCCESS"
SC_ERROR_INVALID_ARGUMENTS == "SC_ERROR_INVALID_ARGUMENTS"
SC_ERROR_INVALID_DATA == "SC_ERROR_INVALID_DATA"
SC_ERROR_INTERNAL == "SC_ERROR_INTERNAL"
SC_ERROR_OUT_OF_MEMORY == "SC_ERROR_OUT_OF_MEMORY"
SC_ERROR_NOT_SUPPORTED == "SC_ERROR_NOT_SUPPORTED"
SC_ERROR_INCORRECT_PARAMETERS == "SC_ERROR_INCORRECT_PARAMETERS"
SC_ERROR_NOT_ALLOWED == "SC_ERROR_NOT_ALLOWED"
SC_ERROR_FILE_ALREADY_EXISTS == "SC_ERROR_FILE_ALREADY_EXISTS"
SC_ERROR_CARD_CMD_FAILED == "SC_ERROR_CARD_CMD_FAILED"
SC_ERROR_FILE_NOT_FOUND == "SC_ERROR_FILE_NOT_FOUND"
SC_ERROR_PIN_CODE_INCORRECT == "SC_ERROR_PIN_CODE_INCORRECT"

SC_PATH_TYPE_FILE_ID == "SC_PATH_TYPE_FILE_ID"
SC_PATH_TYPE_DF_NAME == "SC_PATH_TYPE_DF_NAME"
SC_PATH_TYPE_PATH == "SC_PATH_TYPE_PATH"

SC_FILE_TYPE_DF == "SC_FILE_TYPE_DF"
SC_FILE_TYPE_WORKING_EF == "SC_FILE_TYPE_WORKING_EF"
SC_FILE_EF_UNKNOWN == "SC_FILE_EF_UNKNOWN"
SC_FILE_EF_TRANSPARENT == "SC_FILE_EF_TRANSPARENT"
SC_FILE_EF_LINEAR_FIXED == "SC_FILE_EF_LINEAR_FIXED"
SC_FILE_EF_CYCLIC == "SC_FILE_EF_CYCLIC"
SC_FILE_MAGIC == "SC_FILE_MAGIC"

\* the errors sc_transmit_apdu can return (r < 0)
TransportErrors == {"SC_ERROR_TRANSMIT_FAILED", "SC_ERROR_CARD_REMOVED"}

---------------------------------------------------------------------------
(* Inputs *)

MF == <<\H3F, \H00>>

\* the FIDs callers select: the MF and two FIDs that differ in one byte
Fids == {MF, <<\H5F, \H00>>, <<\H5F, \H01>>}

\* the AIDs callers select
Aids == {<<\HA0, \H01>>, <<\HA0, \H02>>}

RECURSIVE Flatten(_)
Flatten(fs) == IF fs = <<>> THEN <<>> ELSE Head(fs) \o Flatten(Tail(fs))

FidPaths == UNION {{Flatten(f) : f \in [1..n -> Fids]} : n \in 0..MaxPathFids}

\* every sequence of up to MaxPathFids FIDs, and each one cut by a byte
InputPaths == FidPaths \cup {SubSeq(p, 1, Len(p) - 1) : p \in FidPaths \ {<<>>}}

\* FCI bodies the card returns with a SELECT that asked for one
FciSamples ==
    { <<\H6F, 7, \H80, 2, \H00, \H20, \H82, 1, \H01>>,
      <<\H6F, 5, \H82, 3, \H02, \H21, \H10>>,
      <<\H62, 0>>,
      <<>> }

---------------------------------------------------------------------------
(* Files *)

NoFile ==
    [magic |-> "unset", id |-> 0, path |-> [type |-> SC_PATH_TYPE_FILE_ID, len |-> 0, value |-> <<>>],
     type |-> "unset", ef_structure |-> "unset", size |-> 0,
     record_length |-> 0, shareable |-> 0, namelen |-> 0, name |-> <<>>]

sc_file_new == NoFile

---------------------------------------------------------------------------
(* The card.  The driver sees it only through status words; what is kept   *)
(* here is what the driver's own comments say the card does: a SELECT      *)
(* answered 9000/61xx selects the file, a SELECT of a DF may be answered   *)
(* 6284 (no FCI), READ BINARY is answered 6986 exactly when no EF is       *)
(* selected, a DF lies directly under the MF, and 6985 is the answer of a  *)
(* card that has no MF.                                                    *)

PathName(value) == [type |-> SC_PATH_TYPE_PATH, value |-> value]
AidName(value) == [type |-> SC_PATH_TYPE_DF_NAME, value |-> value]
UnknownDF == [type |-> "unknown", value |-> <<>>]

\* the path of the DF with FID fid: at most one level below the MF
DevPath(fid) == IF fid = MF THEN MF ELSE MF \o fid

Answer(d, sw1, sw2, resp) == [dev |-> d, sw1 |-> sw1, sw2 |-> sw2, resp |-> resp]

\* SELECT FILE by FID (A4 00): the FID names a DF, an EF or nothing
CardSelectFid(d, apdu) ==
    LET fid == apdu.data
        asDF == [df |-> PathName(DevPath(fid)), ef |-> FALSE]
        asEF == [d EXCEPT !.ef = TRUE]
        fci == IF apdu.p2 = \H00 THEN FciSamples ELSE {<<>>}
        dfFci == IF apdu.p2 = \H00 THEN <<\H6F, 0>> ELSE <<>>
    IN  {Answer(asDF, \H90, \H00, dfFci), Answer(asDF, \H61, \H09, dfFci)}
        \cup {Answer(asDF, \H62, \H84, <<>>)}
        \cup (IF fid # MF
              THEN {Answer(asEF, \H90, \H00, r) : r \in fci}
                   \cup {Answer(asEF, \H61, \H09, r) : r \in fci}
              ELSE {Answer(d, \H69, \H85, <<>>)})
        \cup {Answer(d, \H6A, \H82, <<>>), Answer(d, \H69, \HF0, <<>>)}

\* SELECT FILE by AID (A4 04)
CardSelectAid(d, apdu) ==
    LET asDF == [df |-> AidName(apdu.data), ef |-> FALSE]
    IN  {Answer(asDF, \H90, \H00, <<>>), Answer(asDF, \H61, \H09, <<>>),
         Answer(d, \H6A, \H82, <<>>)}

\* READ BINARY (B0): 6986 "no current EF" exactly when no EF is selected
CardReadBinary(d, apdu) ==
    IF d.ef THEN {Answer(d, \H90, \H00, <<0>>), Answer(d, \H69, \H82, <<>>)}
    ELSE {Answer(d, \H69, \H86, <<>>)}

\* ERASE (E4): the MF is deleted, there is none, or the card refuses
CardErase(d, apdu) ==
    {Answer([df |-> UnknownDF, ef |-> FALSE], \H90, \H00, <<>>),
     Answer(d, \H69, \H85, <<>>), Answer(d, \H69, \HF0, <<>>)}

\* PSO COMPUTE SIGNATURE (2A 9E 9A), INTERNAL AUTHENTICATE (88): a signature
CardSign(d, apdu) ==
    {Answer(d, \H90, \H00, <<\HDE, \HAD, \HBE, \HEF>>), Answer(d, \H6F, \H08, <<>>),
     Answer(d, \H69, \H82, <<>>)}

\* the serial numbers a card has, none longer than card->serialnr.value
SerialSamples == {<<\H01, \H02, \H03, \H04>>, <<\H09, \H09>>}

\* GET CARD DATA (F6): the serial number, nothing, or a refusal
CardSerial(d, apdu) ==
    {Answer(d, \H90, \H00, s) : s \in SerialSamples}
    \cup {Answer(d, \H90, \H00, <<>>), Answer(d, \H6F, \H05, <<>>), Answer(d, \H69, \H82, <<>>)}

\* the public key records a card returns: 18 bytes, then the modulus with
\* its least significant byte first
PublicKeySamples ==
    {[i \in 1..18 |-> i] \o <<\H01, \H02>>, [i \in 1..18 |-> i] \o <<\H01, \H02, \H03>>}

\* READ PUBLIC KEY (F0)
CardPublicKey(d, apdu) ==
    {Answer(d, \H90, \H00, k) : k \in PublicKeySamples}
    \cup {Answer(d, \H6F, \H07, <<>>), Answer(d, \H69, \H82, <<>>)}

\* any other command: accepted, or refused with a status word of the
\* driver's table, of the parent's table, or a wrong-PIN counter
CardOther(d, apdu) ==
    {Answer(d, \H90, \H00, <<>>), Answer(d, \H6F, \H05, <<>>),
     Answer(d, \H69, \H82, <<>>), Answer(d, \H63, \HC2, <<>>)}

CardAnswers(d, apdu) ==
    CASE apdu.ins = \HA4 /\ apdu.p1 = \H00 -> CardSelectFid(d, apdu)
      [] apdu.ins = \HA4 /\ apdu.p1 = \H04 -> CardSelectAid(d, apdu)
      [] apdu.ins = \HB0 -> CardReadBinary(d, apdu)
      [] apdu.ins = \HE4 -> CardErase(d, apdu)
      [] apdu.ins = \H88 \/ (apdu.ins = \H2A /\ apdu.p1 = \H9E) -> CardSign(d, apdu)
      [] apdu.ins = \HF6 -> CardSerial(d, apdu)
      [] apdu.ins = \HF0 -> CardPublicKey(d, apdu)
      [] OTHER -> CardOther(d, apdu)

---------------------------------------------------------------------------
(* Transport *)

\* sc_format_apdu: the class byte is card->cla, which init sets to 0
sc_format_apdu(ins, p1, p2) ==
    [cla |-> \H00, ins |-> ins, p1 |-> p1, p2 |-> p2, lc |-> 0, le |-> 0, data |-> <<>>, sw1 |-> 0, sw2 |-> 0]

\* an entry of the trace: the APDU as sent, what sc_transmit_apdu returned
\* and the status word it stored in the APDU
Exchange(apdu, r, sw1, sw2) ==
    [cla |-> apdu.cla, ins |-> apdu.ins, p1 |-> apdu.p1, p2 |-> apdu.p2, lc |-> apdu.lc,
     le |-> apdu.le, data |-> apdu.data, sw1 |-> sw1, sw2 |-> sw2, r |-> r]

\* sc_transmit_apdu: the APDU goes out; the transport fails (r < 0, the
\* card has not seen the command) or the card answers and its status word
\* is stored in the APDU.  m.apdus is the trace of the APDUs of the call.
sc_transmit_apdu(m, apdu) ==
    {[m |-> [m EXCEPT !.apdus = Append(@, Exchange(apdu, e, 0, 0))],
      r |-> e, sw1 |-> 0, sw2 |-> 0, resp |-> <<>>]
     : e \in TransportErrors}
    \cup {[m |-> [m EXCEPT !.apdus = Append(@, Exchange(apdu, SC_SUCCESS, a.sw1, a.sw2)), !.dev = a.dev],
           r |-> SC_SUCCESS, sw1 |-> a.sw1, sw2 |-> a.sw2, resp |-> a.resp]
          : a \in CardAnswers(m.dev, apdu)}

\* a handler's result: the machine it leaves, its return value, *file_out,
\* and the bytes copied to the caller's buffer (for a handler that returns
\* their count, r is SC_SUCCESS and the count is Len(out))
Result(m, r, file) == [m |-> m, r |-> r, file |-> file, out |-> <<>>]

---------------------------------------------------------------------------
(* Status words *)

starcos_errors ==
    << [SWs |-> \H66 * 256 + \H00, errorno |-> SC_ERROR_INCORRECT_PARAMETERS],
       [SWs |-> \H66 * 256 + \HF0, errorno |-> SC_ERROR_INCORRECT_PARAMETERS],
       [SWs |-> \H69 * 256 + \HF0, errorno |-> SC_ERROR_NOT_ALLOWED],
       [SWs |-> \H6A * 256 + \H89, errorno |-> SC_ERROR_FILE_ALREADY_EXISTS],
       [SWs |-> \H6A * 256 + \H8A, errorno |-> SC_ERROR_FILE_ALREADY_EXISTS],
       [SWs |-> \H6F * 256 + \H01, errorno |-> SC_ERROR_CARD_CMD_FAILED],
       [SWs |-> \H6F * 256 + \H02, errorno |-> SC_ERROR_CARD_CMD_FAILED],
       [SWs |-> \H6F * 256 + \H03, errorno |-> SC_ERROR_CARD_CMD_FAILED],
       [SWs |-> \H6F * 256 + \H05, errorno |-> SC_ERROR_CARD_CMD_FAILED],
       [SWs |-> \H6F * 256 + \H07, errorno |-> SC_ERROR_FILE_NOT_FOUND],
       [SWs |-> \H6F * 256 + \H08, errorno |-> SC_ERROR_CARD_CMD_FAILED],
       [SWs |-> \H6F * 256 + \H0A, errorno |-> SC_ERROR_INCORRECT_PARAMETERS],
       [SWs |-> \H6F * 256 + \H0B, errorno |-> SC_ERROR_INCORRECT_PARAMETERS],
       [SWs |-> \H6F * 256 + \H81, errorno |-> SC_ERROR_CARD_CMD_FAILED] >>

\* iso_ops->check_sw: the parent driver's translation, kept opaque, one
\* error per status word
iso_check_sw(sw1, sw2) == "iso7816_check_sw:" \o ToString(sw1 * 256 + sw2)

starcos_check_sw(sw1, sw2) ==
    IF sw1 = \H90 THEN SC_SUCCESS
    ELSE IF sw1 = \H63 /\ (sw2 \div 16) * 16 = \HC0 THEN SC_ERROR_PIN_CODE_INCORRECT
    ELSE LET hits == {i \in 1..Len(starcos_errors) : starcos_errors[i].SWs = sw1 * 256 + sw2}
         IN  IF hits # {}
             THEN starcos_errors[CHOOSE i \in hits : \A j \in hits : i <= j].errorno
             ELSE iso_check_sw(sw1, sw2)

\* sc_check_sw dispatches to card->ops->check_sw
sc_check_sw(sw1, sw2) == starcos_check_sw(sw1, sw2)

---------------------------------------------------------------------------
(* FCI decoder *)

\* sc_asn1_find_tag on one-byte tags and lengths: the value of the first
\* object with this tag among the objects laid end to end in buf
RECURSIVE sc_asn1_find_tag(_, _)
sc_asn1_find_tag(buf, tag) ==
    IF Len(buf) < 2 \/ Len(buf) - 2 < buf[2] THEN [found |-> FALSE, val |-> <<>>]
    ELSE IF buf[1] = tag THEN [found |-> TRUE, val |-> SubSeq(buf, 3, 2 + buf[2])]
    ELSE sc_asn1_find_tag(SubSeq(buf, 3 + buf[2], Len(buf)), tag)

\* the file descriptor byte(s) of tag 0x82 applied to file
fci_descriptor(file, tag) ==
    IF Len(tag) = 1 /\ tag[1] = \H01
    THEN [file EXCEPT !.type = SC_FILE_TYPE_WORKING_EF, !.ef_structure = SC_FILE_EF_TRANSPARENT]
    ELSE IF Len(tag) = 1 /\ tag[1] = \H11
    THEN [file EXCEPT !.type = SC_FILE_TYPE_WORKING_EF, !.ef_structure = SC_FILE_EF_TRANSPARENT]
    ELSE IF Len(tag) = 3 /\ tag[2] = \H21
    THEN LET f == [file EXCEPT !.record_length = tag[3], !.type = SC_FILE_TYPE_WORKING_EF]
         IN  CASE tag[1] = \H02 -> [f EXCEPT !.ef_structure = SC_FILE_EF_LINEAR_FIXED]
               [] tag[1] = \H07 -> [f EXCEPT !.ef_structure = SC_FILE_EF_CYCLIC]
               [] tag[1] = \H17 -> [f EXCEPT !.ef_structure = SC_FILE_EF_UNKNOWN]
               [] OTHER -> [f EXCEPT !.ef_structure = SC_FILE_EF_UNKNOWN, !.record_length = 0]
    ELSE file

\* process_fci: [r, file]
process_fci(file, buf) ==
    IF Len(buf) < 2 THEN [r |-> SC_ERROR_INTERNAL, file |-> file]
    ELSE IF buf[1] # \H6F THEN [r |-> SC_ERROR_INVALID_DATA, file |-> file]
    ELSE IF Len(buf) - 2 < buf[2] THEN [r |-> SC_ERROR_INVALID_DATA, file |-> file]
    ELSE LET p == SubSeq(buf, 3, 2 + buf[2])
             f0 == [file EXCEPT !.type = SC_FILE_TYPE_WORKING_EF, !.ef_structure = SC_FILE_EF_UNKNOWN,
                                !.shareable = 0, !.record_length = 0, !.size = 0]
             t80 == sc_asn1_find_tag(p, \H80)
             f1 == IF t80.found /\ Len(t80.val) >= 2
                   THEN [f0 EXCEPT !.size = t80.val[1] * 256 + t80.val[2]] ELSE f0
             t82 == sc_asn1_find_tag(p, \H82)
             f2 == IF t82.found THEN fci_descriptor(f1, t82.val) ELSE f1
         IN  [r |-> SC_SUCCESS, file |-> [f2 EXCEPT !.magic = SC_FILE_MAGIC]]

---------------------------------------------------------------------------
(* SELECT FILE *)

\* a variant of select_fid_update_cache without the case of the MF
select_fid_update_cache_always_below(id_hi, id_lo) ==
    [type |-> SC_PATH_TYPE_PATH, len |-> 4, value |-> <<\H3F, \H00, id_hi, id_lo>>]

\* the cache update of starcos_select_fid for a DF
select_fid_update_cache(id_hi, id_lo) ==
    IF id_hi = \H3F /\ id_lo = \H00
    THEN [type |-> SC_PATH_TYPE_PATH, len |-> 2, value |-> <<\H3F, \H00>>]
    ELSE [type |-> SC_PATH_TYPE_PATH, len |-> 4, value |-> <<\H3F, \H00, id_hi, id_lo>>]

\* starcos_select_fid after its APDUs: m is the machine, sw1 sw2 resp the
\* SELECT's answer as the code reads it at the end
select_fid_finish(m, sw1, sw2, resp, bIsDF, id_hi, id_lo, want) ==
    IF sw1 # \H61 /\ (sw1 # \H90 \/ sw2 # \H00)
    THEN Result(m, sc_check_sw(sw1, sw2), NoFile)
    ELSE LET m1 == IF bIsDF
                   THEN [m EXCEPT !.cache.current_path = select_fid_update_cache(id_hi, id_lo)]
                   ELSE m
             file == [sc_file_new EXCEPT !.id = id_hi * 256 + id_lo, !.path = m1.cache.current_path]
         IN  IF ~want THEN Result(m1, SC_SUCCESS, NoFile)
             ELSE IF bIsDF
             THEN Result(m1, SC_SUCCESS,
                         [file EXCEPT !.type = SC_FILE_TYPE_DF, !.ef_structure = SC_FILE_EF_UNKNOWN,
                                      !.size = 0, !.namelen = 0, !.magic = SC_FILE_MAGIC])
             ELSE LET d == process_fci(file, resp)
                  IN  IF d.r # SC_SUCCESS THEN Result(m1, d.r, NoFile)
                      ELSE Result(m1, SC_SUCCESS, d.file)

\* a variant of select_fid_again that does not take the target for a DF
select_fid_again_not_df(t, apdu, id_hi, id_lo, want) ==
    LET apdu2 == [apdu EXCEPT !.p2 = \H0C, !.le = 0]
    IN  {IF t2.r # SC_SUCCESS THEN Result(t2.m, t2.r, NoFile)
         ELSE select_fid_finish(t2.m, t2.sw1, t2.sw2, <<>>, FALSE, id_hi, id_lo, want)
         : t2 \in sc_transmit_apdu(t.m, apdu2)}

\* the SELECT answered 6284 with an FCI asked for: a DF, select it again
\* without FCI
select_fid_again(t, apdu, id_hi, id_lo, want) ==
    LET apdu2 == [apdu EXCEPT !.p2 = \H0C, !.le = 0]
    IN  {IF t2.r # SC_SUCCESS THEN Result(t2.m, t2.r, NoFile)
         ELSE select_fid_finish(t2.m, t2.sw1, t2.sw2, <<>>, TRUE, id_hi, id_lo, want)
         : t2 \in sc_transmit_apdu(t.m, apdu2)}

\* a variant of select_fid_probe that takes any refusal 69xx of the READ
\* BINARY for that of a DF
select_fid_probe_any_69(t, id_hi, id_lo, want) ==
    LET apdu2 == [sc_format_apdu(\HB0, 0, 0) EXCEPT !.le = 1, !.lc = 0]
    IN  {IF t2.r # SC_SUCCESS THEN Result(t2.m, t2.r, NoFile)
         ELSE select_fid_finish(t2.m, t.sw1, t.sw2, t.resp, t2.sw1 = \H69, id_hi, id_lo, want)
         : t2 \in sc_transmit_apdu(t.m, apdu2)}

\* the SELECT answered 9000 or 61xx: READ BINARY tells a DF from an EF
select_fid_probe(t, id_hi, id_lo, want) ==
    LET apdu2 == [sc_format_apdu(\HB0, 0, 0) EXCEPT !.le = 1, !.lc = 0]
    IN  {IF t2.r # SC_SUCCESS THEN Result(t2.m, t2.r, NoFile)
         ELSE select_fid_finish(t2.m, t.sw1, t.sw2, t.resp, t2.sw1 = \H69 /\ t2.sw2 = \H86,
                                id_hi, id_lo, want)
         : t2 \in sc_transmit_apdu(t.m, apdu2)}

starcos_select_fid(m, id_hi, id_lo, want) ==
    LET apdu == [sc_format_apdu(\HA4, \H00, \H00) EXCEPT
                    !.p2 = IF want THEN \H00 ELSE \H0C,
                    !.le = 256, !.lc = 2, !.data = <<id_hi % 256, id_lo % 256>>]
    IN  UNION {IF t.r # SC_SUCCESS THEN {Result(t.m, t.r, NoFile)}
               ELSE IF apdu.p2 = \H00 /\ t.sw1 = \H62 /\ t.sw2 = \H84
               THEN select_fid_again(t, apdu, id_hi, id_lo, want)
               ELSE IF t.sw1 = \H61 \/ (t.sw1 = \H90 /\ t.sw2 = \H00)
               THEN select_fid_probe(t, id_hi, id_lo, want)
               ELSE {select_fid_finish(t.m, t.sw1, t.sw2, t.resp, FALSE, id_hi, id_lo, want)}
               : t \in sc_transmit_apdu(m, apdu)}

starcos_select_aid(m, aid, len, want) ==
    LET apdu == [sc_format_apdu(\HA4, \H04, \H0C) EXCEPT !.lc = len, !.data = aid, !.le = 0]
    IN  {IF t.r # SC_SUCCESS THEN Result(t.m, t.r, NoFile)
         ELSE IF ~(t.sw1 = \H90 /\ t.sw2 = \H00) /\ t.sw1 # \H61
         THEN Result(t.m, sc_check_sw(t.sw1, t.sw2), NoFile)
         ELSE LET m1 == [t.m EXCEPT !.cache.current_path =
                            [type |-> SC_PATH_TYPE_DF_NAME, len |-> len, value |-> aid]]
              IN  IF ~want THEN Result(m1, SC_SUCCESS, NoFile)
                  ELSE Result(m1, SC_SUCCESS,
                          [sc_file_new EXCEPT !.type = SC_FILE_TYPE_DF, !.ef_structure = SC_FILE_EF_UNKNOWN,
                                              !.path.len = 0, !.size = 0, !.name = aid,
                                              !.namelen = len, !.id = 0, !.magic = SC_FILE_MAGIC])
         : t \in sc_transmit_apdu(m, apdu)}

\* a variant of select_aid_cache_hit that compares the lengths only
select_aid_cache_hit_by_length(m, pathbuf, pathlen) ==
    /\ m.cache_valid
    /\ m.cache.current_path.type = SC_PATH_TYPE_DF_NAME
    /\ m.cache.current_path.len = pathlen

\* by AID: the cache already names this AID
select_aid_cache_hit(m, pathbuf, pathlen) ==
    /\ m.cache_valid
    /\ m.cache.current_path.type = SC_PATH_TYPE_DF_NAME
    /\ m.cache.current_path.len = pathlen
    /\ SubSeq(m.cache.current_path.value, 1, pathlen) = SubSeq(pathbuf, 1, pathlen)

\* a variant of select_path_rejected that lets any path of 6 bytes pass
select_path_rejected_by_length(path, pathlen) ==
    pathlen % 2 # 0 \/ pathlen > 6 \/ pathlen <= 0

\* by path: the lengths and leading FID select_file refuses
select_path_rejected(path, pathlen) ==
    \/ pathlen % 2 # 0 \/ pathlen > 6 \/ pathlen <= 0
    \/ pathlen = 6 /\ (path[1] # \H3F \/ path[2] # \H00)

\* a variant of select_path_unify that puts the MF before every path
select_path_unify_always(path) == <<\H3F, \H00>> \o path

\* by path: unify the path, the first FID is the MF
select_path_unify(path) ==
    IF path[1] # \H3F \/ path[2] # \H00 THEN <<\H3F, \H00>> \o path ELSE path

\* a variant of select_path_bMatch that never uses the cache
select_path_bMatch_no_cache(m, path, pathlen) == -1

\* by path: bMatch, the bytes of the cached path found in the path, FID by
\* FID; -1 when the cache cannot be used
select_path_bMatch(m, path, pathlen) ==
    LET cp == m.cache.current_path
    IN  IF m.cache_valid /\ cp.type = SC_PATH_TYPE_PATH /\ cp.len >= 2 /\ cp.len <= pathlen
        THEN 2 * Cardinality({i \in 0..(cp.len - 1) :
                                /\ i % 2 = 0
                                /\ cp.value[i + 1] = path[i + 1]
                                /\ cp.value[i + 2] = path[i + 2]})
        ELSE -1

\* by path, no usable cache: select every FID from the MF down, the last
\* one with the caller's file_out
RECURSIVE select_path_cold(_, _, _, _, _)
select_path_cold(m, path, pathlen, i, want) ==
    IF i < pathlen - 2
    THEN UNION {IF res.r # SC_SUCCESS THEN {res}
                ELSE select_path_cold(res.m, path, pathlen, i + 2, want)
                : res \in starcos_select_fid(m, path[i + 1], path[i + 2], FALSE)}
    ELSE starcos_select_fid(m, path[pathlen - 1], path[pathlen], want)

\* by path, already in the requested directory
select_path_cache_hit(m, path, pathlen, want) ==
    IF ~want THEN Result(m, SC_SUCCESS, NoFile)
    ELSE Result(m, SC_SUCCESS,
                [sc_file_new EXCEPT !.id = path[pathlen - 1] * 256 + path[pathlen],
                                    !.path = m.cache.current_path, !.type = SC_FILE_TYPE_DF,
                                    !.ef_structure = SC_FILE_EF_UNKNOWN, !.size = 0,
                                    !.namelen = 0, !.magic = SC_FILE_MAGIC])

RECURSIVE starcos_select_file(_, _, _)
starcos_select_file(m, in_path, want) ==
    LET pathbuf == in_path.value
        pathlen0 == in_path.len
    IN  IF in_path.type = SC_PATH_TYPE_FILE_ID
        THEN IF pathlen0 # 2 THEN {Result(m, SC_ERROR_INVALID_ARGUMENTS, NoFile)}
             ELSE starcos_select_fid(m, pathbuf[1], pathbuf[2], want)
        ELSE IF in_path.type = SC_PATH_TYPE_DF_NAME
        THEN IF select_aid_cache_hit(m, pathbuf, pathlen0)
             THEN {Result(m, SC_SUCCESS, NoFile)}
             ELSE starcos_select_aid(m, pathbuf, pathlen0, want)
        ELSE IF in_path.type = SC_PATH_TYPE_PATH
        THEN IF select_path_rejected(pathbuf, pathlen0)
             THEN {Result(m, SC_ERROR_INVALID_ARGUMENTS, NoFile)}
             ELSE LET path == select_path_unify(pathbuf)
                      pathlen == Len(path)
                      bMatch == select_path_bMatch(m, path, pathlen)
                  IN  IF m.cache_valid /\ bMatch >= 0
                      THEN IF pathlen - bMatch = 2
                           THEN starcos_select_fid(m, path[bMatch + 1], path[bMatch + 2], want)
                           ELSE IF pathlen - bMatch > 2
                           THEN UNION {IF res.r # SC_SUCCESS THEN {res}
                                       ELSE starcos_select_file(res.m,
                                              [type |-> SC_PATH_TYPE_PATH,
                                               len |-> pathlen - bMatch - 2,
                                               value |-> SubSeq(path, bMatch + 3, pathlen)], want)
                                       : res \in starcos_select_fid(m, path[bMatch + 1], path[bMatch + 2], FALSE)}
                           ELSE {select_path_cache_hit(m, path, pathlen, want)}
                      ELSE select_path_cold(m, path, pathlen, 0, want)
        ELSE {Result(m, SC_ERROR_INVALID_ARGUMENTS, NoFile)}

---------------------------------------------------------------------------
(* Logout, erase *)

\* a variant of starcos_logout that invalidates the path cache, as
\* starcos_erase_card does
starcos_logout_invalidates(m) ==
    LET apdu == [sc_format_apdu(\HA4, \H00, \H0C) EXCEPT !.le = 0, !.lc = 2, !.data = <<\H3F, \H00>>]
    IN  {IF t.r # SC_SUCCESS THEN Result(t.m, t.r, NoFile)
         ELSE LET m1 == [t.m EXCEPT !.cache_valid = FALSE]
              IN  IF t.sw1 = \H69 /\ t.sw2 = \H85 THEN Result(m1, SC_SUCCESS, NoFile)
                  ELSE Result(m1, sc_check_sw(t.sw1, t.sw2), NoFile)
         : t \in sc_transmit_apdu(m, apdu)}

\* a variant of starcos_logout for which a card without MF is an error
starcos_logout_needs_mf(m) ==
    LET apdu == [sc_format_apdu(\HA4, \H00, \H0C) EXCEPT !.le = 0, !.lc = 2, !.data = <<\H3F, \H00>>]
    IN  {IF t.r # SC_SUCCESS THEN Result(t.m, t.r, NoFile)
         ELSE Result(t.m, sc_check_sw(t.sw1, t.sw2), NoFile)
         : t \in sc_transmit_apdu(m, apdu)}

starcos_logout(m) ==
    LET apdu == [sc_format_apdu(\HA4, \H00, \H0C) EXCEPT !.le = 0, !.lc = 2, !.data = <<\H3F, \H00>>]
    IN  {IF t.r # SC_SUCCESS THEN Result(t.m, t.r, NoFile)
         ELSE IF t.sw1 = \H69 /\ t.sw2 = \H85 THEN Result(t.m, SC_SUCCESS, NoFile)
         ELSE Result(t.m, sc_check_sw(t.sw1, t.sw2), NoFile)
         : t \in sc_transmit_apdu(m, apdu)}

starcos_erase_card(m) ==
    LET apdu == [sc_format_apdu(\HE4, \H00, \H00) EXCEPT !.cla = \H80, !.lc = 2, !.data = <<\H3F, \H00>>]
    IN  {IF t.r # SC_SUCCESS THEN Result(t.m, t.r, NoFile)
         ELSE LET m1 == [t.m EXCEPT !.cache_valid = FALSE]
              IN  IF t.sw1 = \H69 /\ t.sw2 = \H85 THEN Result(m1, SC_SUCCESS, NoFile)
                  ELSE Result(m1, sc_check_sw(t.sw1, t.sw2), NoFile)
         : t \in sc_transmit_apdu(m, apdu)}

---------------------------------------------------------------------------
(* Security environment and signature *)

\* the framework's values (opensc.h, types.h) of the names the driver uses
SC_SEC_OPERATION_DECIPHER == 1
SC_SEC_OPERATION_SIGN == 2
SC_SEC_OPERATION_AUTHENTICATE == 3

SC_MAX_APDU_BUFFER_SIZE == 258

SC_ALGORITHM_RSA_HASHES == {"SC_ALGORITHM_RSA_HASH_NONE", "SC_ALGORITHM_RSA_HASH_SHA1", "SC_ALGORITHM_RSA_HASH_MD5", "SC_ALGORITHM_RSA_HASH_MD5_SHA1", "SC_ALGORITHM_RSA_HASH_RIPEMD160"}

\* the key reference object at the head of every MSE body
env_key_ref(env) ==
    IF "SC_SEC_ENV_KEY_REF_PRESENT" \in env.flags
    THEN <<IF "SC_SEC_ENV_KEY_REF_ASYMMETRIC" \in env.flags THEN \H83 ELSE \H84, env.key_ref_len>>
         \o SubSeq(env.key_ref, 1, env.key_ref_len)
    ELSE <<>>

\* MSE: one APDU 22 p1 p2 with body sbuf
mse_apdu(p1, p2, sbuf) == [sc_format_apdu(\H22, p1, p2) EXCEPT !.data = sbuf, !.lc = Len(sbuf), !.le = 0]

\* a variant of sign_method that takes MD5 for every hash it does not know
sign_method_md5_default(algorithm_flags) ==
    IF "SC_ALGORITHM_RSA_PAD_PKCS1" \in algorithm_flags
    THEN IF "SC_ALGORITHM_RSA_HASH_SHA1" \in algorithm_flags THEN [go |-> "send", ref |-> \H12]
         ELSE IF "SC_ALGORITHM_RSA_HASH_RIPEMD160" \in algorithm_flags THEN [go |-> "send", ref |-> \H22]
         ELSE [go |-> "send", ref |-> \H32]
    ELSE IF "SC_ALGORITHM_RSA_PAD_ISO9796" \in algorithm_flags
    THEN IF "SC_ALGORITHM_RSA_HASH_SHA1" \in algorithm_flags THEN [go |-> "send", ref |-> \H11]
         ELSE IF "SC_ALGORITHM_RSA_HASH_RIPEMD160" \in algorithm_flags THEN [go |-> "send", ref |-> \H21]
         ELSE [go |-> "invalid", ref |-> 0]
    ELSE [go |-> "invalid", ref |-> 0]

\* the method byte for COMPUTE SIGNATURE chosen from algorithm_flags:
\* "send" it, "try_authenticate" instead, or "invalid"
sign_method(algorithm_flags) ==
    IF "SC_ALGORITHM_RSA_PAD_PKCS1" \in algorithm_flags
    THEN IF "SC_ALGORITHM_RSA_HASH_SHA1" \in algorithm_flags THEN [go |-> "send", ref |-> \H12]
         ELSE IF "SC_ALGORITHM_RSA_HASH_RIPEMD160" \in algorithm_flags THEN [go |-> "send", ref |-> \H22]
         ELSE IF "SC_ALGORITHM_RSA_HASH_MD5" \in algorithm_flags THEN [go |-> "send", ref |-> \H32]
         ELSE [go |-> "try_authenticate", ref |-> 0]
    ELSE IF "SC_ALGORITHM_RSA_PAD_ISO9796" \in algorithm_flags
    THEN IF "SC_ALGORITHM_RSA_HASH_SHA1" \in algorithm_flags THEN [go |-> "send", ref |-> \H11]
         ELSE IF "SC_ALGORITHM_RSA_HASH_RIPEMD160" \in algorithm_flags THEN [go |-> "send", ref |-> \H21]
         ELSE [go |-> "invalid", ref |-> 0]
    ELSE [go |-> "invalid", ref |-> 0]

\* what follows the key reference in the MSE for COMPUTE SIGNATURE
sign_algorithm(env) ==
    IF "SC_SEC_ENV_ALG_REF_PRESENT" \in env.flags
    THEN [go |-> "send", body |-> <<\H80, \H01, env.algorithm_ref % 256>>]
    ELSE IF "SC_SEC_ENV_ALG_PRESENT" \in env.flags /\ env.algorithm = "SC_ALGORITHM_RSA"
    THEN LET c == sign_method(env.algorithm_flags)
         IN  [go |-> c.go, body |-> <<\H80, \H01, c.ref>>]
    ELSE [go |-> "send", body |-> <<>>]

\* a variant of set_security_env_authenticate that records no flags
set_security_env_authenticate_no_fix(m, env, operation) ==
    IF operation = SC_SEC_OPERATION_AUTHENTICATE /\ "SC_ALGORITHM_RSA_PAD_PKCS1" \in env.algorithm_flags
    THEN {IF t.r # SC_SUCCESS THEN Result(t.m, t.r, NoFile)
          ELSE IF t.sw1 # \H90 \/ t.sw2 # \H00 THEN Result(t.m, sc_check_sw(t.sw1, t.sw2), NoFile)
          ELSE Result([t.m EXCEPT !.ex_data = [sec_ops |-> SC_SEC_OPERATION_AUTHENTICATE,
                                                fix_digestInfo |-> {}]],
                      SC_SUCCESS, NoFile)
          : t \in sc_transmit_apdu(m, mse_apdu(\H41, \HA4, env_key_ref(env) \o <<\H80, \H01, \H01>>))}
    ELSE {Result(m, SC_ERROR_INVALID_ARGUMENTS, NoFile)}

\* try INTERNAL AUTHENTICATE
set_security_env_authenticate(m, env, operation) ==
    IF operation = SC_SEC_OPERATION_AUTHENTICATE /\ "SC_ALGORITHM_RSA_PAD_PKCS1" \in env.algorithm_flags
    THEN {IF t.r # SC_SUCCESS THEN Result(t.m, t.r, NoFile)
          ELSE IF t.sw1 # \H90 \/ t.sw2 # \H00 THEN Result(t.m, sc_check_sw(t.sw1, t.sw2), NoFile)
          ELSE Result([t.m EXCEPT !.ex_data = [sec_ops |-> SC_SEC_OPERATION_AUTHENTICATE,
                                                fix_digestInfo |-> env.algorithm_flags]],
                      SC_SUCCESS, NoFile)
          : t \in sc_transmit_apdu(m, mse_apdu(\H41, \HA4, env_key_ref(env) \o <<\H80, \H01, \H01>>))}
    ELSE {Result(m, SC_ERROR_INVALID_ARGUMENTS, NoFile)}

\* DECIPHER
set_security_env_decipher(m, env) ==
    IF "SC_ALGORITHM_RSA_PAD_PKCS1" \in env.algorithm_flags
    THEN {IF t.r # SC_SUCCESS THEN Result(t.m, t.r, NoFile)
          ELSE IF t.sw1 # \H90 \/ t.sw2 # \H00 THEN Result(t.m, sc_check_sw(t.sw1, t.sw2), NoFile)
          ELSE Result(t.m, SC_SUCCESS, NoFile)
          : t \in sc_transmit_apdu(m, mse_apdu(\H81, \HB8, env_key_ref(env) \o <<\H80, \H01, \H02>>))}
    ELSE {Result(m, SC_ERROR_INVALID_ARGUMENTS, NoFile)}

\* a variant of starcos_set_security_env that records SIGN before the card
\* has answered the MSE for COMPUTE SIGNATURE
starcos_set_security_env_sign_recorded_early(m, env) ==
    IF env.operation = SC_SEC_OPERATION_DECIPHER THEN set_security_env_decipher(m, env)
    ELSE IF env.operation = SC_SEC_OPERATION_SIGN
            /\ ("SC_ALGORITHM_RSA_PAD_PKCS1" \in env.algorithm_flags
                \/ "SC_ALGORITHM_RSA_PAD_ISO9796" \in env.algorithm_flags)
    THEN LET a == sign_algorithm(env)
             m1 == [m EXCEPT !.ex_data = [sec_ops |-> SC_SEC_OPERATION_SIGN, fix_digestInfo |-> {}]]
         IN  IF a.go = "invalid" THEN {Result(m, SC_ERROR_INVALID_ARGUMENTS, NoFile)}
             ELSE IF a.go = "try_authenticate"
             THEN set_security_env_authenticate(m, env, SC_SEC_OPERATION_AUTHENTICATE)
             ELSE UNION {IF t.r # SC_SUCCESS THEN {Result(t.m, t.r, NoFile)}
                         ELSE IF t.sw1 = \H90 /\ t.sw2 = \H00
                         THEN {Result(t.m, SC_SUCCESS, NoFile)}
                         ELSE set_security_env_authenticate(t.m, env, SC_SEC_OPERATION_AUTHENTICATE)
                         : t \in sc_transmit_apdu(m1, mse_apdu(\H41, \HB6, env_key_ref(env) \o a.body))}
    ELSE set_security_env_authenticate(m, env, env.operation)

starcos_set_security_env(m, env) ==
    IF env.operation = SC_SEC_OPERATION_DECIPHER THEN set_security_env_decipher(m, env)
    ELSE IF env.operation = SC_SEC_OPERATION_SIGN
            /\ ("SC_ALGORITHM_RSA_PAD_PKCS1" \in env.algorithm_flags
                \/ "SC_ALGORITHM_RSA_PAD_ISO9796" \in env.algorithm_flags)
    THEN LET a == sign_algorithm(env)
         IN  IF a.go = "invalid" THEN {Result(m, SC_ERROR_INVALID_ARGUMENTS, NoFile)}
             ELSE IF a.go = "try_authenticate"
             THEN set_security_env_authenticate(m, env, SC_SEC_OPERATION_AUTHENTICATE)
             ELSE UNION {IF t.r # SC_SUCCESS THEN {Result(t.m, t.r, NoFile)}
                         ELSE IF t.sw1 = \H90 /\ t.sw2 = \H00
                         THEN {Result([t.m EXCEPT !.ex_data = [sec_ops |-> SC_SEC_OPERATION_SIGN,
                                                               fix_digestInfo |-> {}]],
                                      SC_SUCCESS, NoFile)}
                         ELSE set_security_env_authenticate(t.m, env, SC_SEC_OPERATION_AUTHENTICATE)
                         : t \in sc_transmit_apdu(m, mse_apdu(\H41, \HB6, env_key_ref(env) \o a.body))}
    ELSE set_security_env_authenticate(m, env, env.operation)

\* sc_pkcs1_encode with hash flags only: the DigestInfo of the hash before
\* the data, or an error
sc_pkcs1_encode(flags, data) ==
    {[r |-> SC_SUCCESS,
      out |-> (IF flags = {"SC_ALGORITHM_RSA_HASH_NONE"} THEN <<>> ELSE <<\H30>>) \o data],
     [r |-> SC_ERROR_INTERNAL, out |-> <<>>]}

\* the signature the card returned, cut to the caller's buffer
signature_out(t, outlen) ==
    LET len == IF Len(t.resp) > outlen THEN outlen ELSE Len(t.resp)
    IN  [m |-> t.m, r |-> SC_SUCCESS, file |-> NoFile, out |-> SubSeq(t.resp, 1, len)]

\* a variant of compute_signature_clear that forgets the operation and
\* keeps fix_digestInfo
compute_signature_clear_sec_ops_only(t) ==
    Result([t.m EXCEPT !.ex_data.sec_ops = 0], sc_check_sw(t.sw1, t.sw2), NoFile)

\* clear old state
compute_signature_clear(t) ==
    Result([t.m EXCEPT !.ex_data = [sec_ops |-> 0, fix_digestInfo |-> {}]],
           sc_check_sw(t.sw1, t.sw2), NoFile)

\* a variant of compute_signature_sign that does not look at the answer to
\* PSO hash
compute_signature_sign_unchecked(m, data, datalen, outlen) ==
    LET hash == [sc_format_apdu(\H2A, \H90, \H81) EXCEPT !.le = 0, !.data = SubSeq(data, 1, datalen), !.lc = datalen]
        sign == [sc_format_apdu(\H2A, \H9E, \H9A) EXCEPT !.le = 256, !.lc = 0]
    IN  UNION {IF t.r # SC_SUCCESS THEN {Result(t.m, t.r, NoFile)}
               ELSE {IF t2.r # SC_SUCCESS THEN Result(t2.m, t2.r, NoFile)
                     ELSE IF t2.sw1 = \H90 /\ t2.sw2 = \H00 THEN signature_out(t2, outlen)
                     ELSE compute_signature_clear(t2)
                     : t2 \in sc_transmit_apdu(t.m, sign)}
               : t \in sc_transmit_apdu(m, hash)}

\* COMPUTE SIGNATURE: PSO hash, then PSO compute signature
compute_signature_sign(m, data, datalen, outlen) ==
    LET hash == [sc_format_apdu(\H2A, \H90, \H81) EXCEPT !.le = 0, !.data = SubSeq(data, 1, datalen), !.lc = datalen]
        sign == [sc_format_apdu(\H2A, \H9E, \H9A) EXCEPT !.le = 256, !.lc = 0]
    IN  UNION {IF t.r # SC_SUCCESS THEN {Result(t.m, t.r, NoFile)}
               ELSE IF t.sw1 # \H90 \/ t.sw2 # \H00
               THEN {Result(t.m, sc_check_sw(t.sw1, t.sw2), NoFile)}
               ELSE {IF t2.r # SC_SUCCESS THEN Result(t2.m, t2.r, NoFile)
                     ELSE IF t2.sw1 = \H90 /\ t2.sw2 = \H00 THEN signature_out(t2, outlen)
                     ELSE compute_signature_clear(t2)
                     : t2 \in sc_transmit_apdu(t.m, sign)}
               : t \in sc_transmit_apdu(m, hash)}

\* INTERNAL AUTHENTICATE on the data, with its DigestInfo if it is to be fixed
compute_signature_authenticate(m, data, datalen, outlen) ==
    LET fix == m.ex_data.fix_digestInfo
        flags == IF fix \cap SC_ALGORITHM_RSA_HASHES = {} THEN {"SC_ALGORITHM_RSA_HASH_NONE"}
                 ELSE fix \cap SC_ALGORITHM_RSA_HASHES
        encoded == IF fix # {} THEN sc_pkcs1_encode(flags, SubSeq(data, 1, datalen))
                   ELSE {[r |-> SC_SUCCESS, out |-> SubSeq(data, 1, datalen)]}
    IN  UNION {IF e.r # SC_SUCCESS THEN {Result(m, e.r, NoFile)}
               ELSE {IF t.r # SC_SUCCESS THEN Result(t.m, t.r, NoFile)
                     ELSE IF t.sw1 = \H90 /\ t.sw2 = \H00 THEN signature_out(t, outlen)
                     ELSE compute_signature_clear(t)
                     : t \in sc_transmit_apdu(m, [sc_format_apdu(\H88, \H10, \H00) EXCEPT
                                                     !.lc = Len(e.out), !.data = e.out, !.le = 256])}
               : e \in encoded}

starcos_compute_signature(m, data, datalen, outlen) ==
    IF datalen > SC_MAX_APDU_BUFFER_SIZE THEN {Result(m, SC_ERROR_INVALID_ARGUMENTS, NoFile)}
    ELSE IF m.ex_data.sec_ops = SC_SEC_OPERATION_SIGN
    THEN compute_signature_sign(m, data, datalen, outlen)
    ELSE IF m.ex_data.sec_ops = SC_SEC_OPERATION_AUTHENTICATE
    THEN compute_signature_authenticate(m, data, datalen, outlen)
    ELSE {Result(m, SC_ERROR_INVALID_ARGUMENTS, NoFile)}

---------------------------------------------------------------------------
(* Key import *)

STARCOS_WKEY_CSIZE == 124

\* a variant of write_key_clen with chunks one byte shorter
write_key_clen_short(tlen) ==
    (IF tlen < STARCOS_WKEY_CSIZE - 1 THEN tlen ELSE STARCOS_WKEY_CSIZE - 1) % 256

\* the length of the next chunk, tlen bytes of the key being left (a u8)
write_key_clen(tlen) == (IF tlen < STARCOS_WKEY_CSIZE THEN tlen ELSE STARCOS_WKEY_CSIZE) % 256

\* install key header
write_key_header(m, data) ==
    sc_transmit_apdu(m, [sc_format_apdu(\HF4, data.mode, \H00) EXCEPT
                            !.cla = \H80, !.lc = 14, !.data = <<\HC1, \H0C>> \o data.key_header])

\* a variant of write_key_offset that leaves the offset where it is
write_key_offset_stuck(offset, clen) == offset

\* offset += clen
write_key_offset(offset, clen) == offset + clen

\* transmit the key in chunks of STARCOS_WKEY_CSIZE bytes
RECURSIVE write_key_chunks(_, _, _, _)
write_key_chunks(m, data, tlen, offset) ==
    IF tlen = 0 THEN {Result(m, SC_SUCCESS, NoFile)}
    ELSE LET clen == write_key_clen(tlen)
             sbuf == <<\HC2, 3 + clen, data.kid, (offset \div 256) % 256, offset % 256>>
                     \o SubSeq(data.key, offset + 1, offset + clen)
             apdu == [sc_format_apdu(\HF4, data.mode, \H00) EXCEPT
                         !.cla = \H80, !.lc = 5 + clen, !.data = sbuf]
         IN  UNION {IF t.r # SC_SUCCESS THEN {Result(t.m, t.r, NoFile)}
                    ELSE IF t.sw1 # \H90 \/ t.sw2 # \H00
                    THEN {Result(t.m, sc_check_sw(t.sw1, t.sw2), NoFile)}
                    ELSE write_key_chunks(t.m, data, tlen - clen, write_key_offset(offset, clen))
                    : t \in sc_transmit_apdu(m, apdu)}

write_key_body(m, data) ==
    IF ~data.key_present /\ data.mode = 0 THEN {Result(m, SC_SUCCESS, NoFile)}
    ELSE write_key_chunks(m, data, data.key_len, 0)

\* a variant of starcos_write_key that goes on to the key whatever the
\* card answered to the key header
starcos_write_key_header_unchecked(m, data) ==
    IF data.mode = 0
    THEN UNION {IF t.r # SC_SUCCESS THEN {Result(t.m, t.r, NoFile)}
                ELSE write_key_body(t.m, data)
                : t \in write_key_header(m, data)}
    ELSE write_key_body(m, data)

starcos_write_key(m, data) ==
    IF data.mode = 0
    THEN UNION {IF t.r # SC_SUCCESS THEN {Result(t.m, t.r, NoFile)}
                ELSE IF t.sw1 # \H90 \/ t.sw2 # \H00
                THEN {Result(t.m, sc_check_sw(t.sw1, t.sw2), NoFile)}
                ELSE write_key_body(t.m, data)
                : t \in write_key_header(m, data)}
    ELSE write_key_body(m, data)

---------------------------------------------------------------------------
(* File creation *)

STARCOS_AC_ALWAYS == \H9F
STARCOS_AC_NEVER == \H5F
STARCOS_PINID2STATE(a) == IF a % 16 = 1 THEN a % 16 ELSE 15 - ((a % 16) \div 2)

\* 0xffffffff in the framework: kept as a value no key reference has
SC_AC_KEY_REF_NONE == -1

\* a file to create: the fields of sc_file_t the driver reads; acl[op] is
\* the list of the entries of the operation, empty for a null pointer
CreateFields(type, id, size, name, ef_structure, acl) ==
    [type |-> type, id |-> id, size |-> size, namelen |-> Len(name), name |-> name,
     ef_structure |-> ef_structure, record_count |-> 3, record_length |-> 16, acl |-> acl]

\* sc_file_get_acl_entry: the first entry of the list of the operation
sc_file_get_acl_entry(file, op) ==
    IF file.acl[op] = <<>> THEN [found |-> FALSE, method |-> {}, key_ref |-> SC_AC_KEY_REF_NONE]
    ELSE [found |-> TRUE, method |-> file.acl[op][1].method, key_ref |-> file.acl[op][1].key_ref]

process_acl_entry(in, method, in_def) ==
    LET def == in_def % 256
        entry == sc_file_get_acl_entry(in, method)
        msb == IF (entry.key_ref \div 128) % 2 = 1 THEN \H10 ELSE \H00
    IN  IF ~entry.found THEN def
        ELSE IF "SC_AC_CHV" \in entry.method
        THEN IF entry.key_ref = SC_AC_KEY_REF_NONE THEN def
             ELSE IF entry.key_ref % 16 = 1 THEN msb + \H01
             ELSE msb + STARCOS_PINID2STATE(entry.key_ref)
        ELSE IF "SC_AC_NEVER" \in entry.method THEN STARCOS_AC_NEVER
        ELSE def

\* the framework's numbers (types.h) of the file types and EF structures,
\* which the driver compares with each other
sc_file_code(name) ==
    CASE name = SC_FILE_TYPE_WORKING_EF -> 1
      [] name = "SC_FILE_TYPE_INTERNAL_EF" -> 3
      [] name = SC_FILE_TYPE_DF -> 4
      [] name = SC_FILE_EF_UNKNOWN -> 0
      [] name = SC_FILE_EF_TRANSPARENT -> 1
      [] name = SC_FILE_EF_LINEAR_FIXED -> 2
      [] name = SC_FILE_EF_CYCLIC -> 6

\* the framework's operations (opensc.h) an index r of file->acl stands for
sc_ac_op(r) ==
    CASE r = 0 -> "SC_AC_OP_SELECT"
      [] r = 1 -> "SC_AC_OP_LOCK"
      [] r = 2 -> "SC_AC_OP_DELETE"
      [] r = 3 -> "SC_AC_OP_CREATE"

\* the SM byte of an MF or a DF: combined mode if the first entry for
\* CREATE asks for secure messaging
process_acl_sm(file) ==
    IF file.acl["SC_AC_OP_CREATE"] # <<>>
       /\ "SC_AC_PRO" \in sc_file_get_acl_entry(file, "SC_AC_OP_CREATE").method
    THEN \H03 ELSE \H00

\* the SM byte of an EF: the loop  for (tmp = 0, r = 0; tmp != 0 && r < 4; r++)
RECURSIVE process_acl_sm_ef(_, _, _)
process_acl_sm_ef(file, tmp, r) ==
    IF tmp # 0 /\ r < 4
    THEN process_acl_sm_ef(file,
                           IF file.acl[sc_ac_op(r)] # <<>>
                              /\ "SC_AC_PRO" \in sc_file_get_acl_entry(file, sc_ac_op(r)).method
                           THEN \H03 ELSE tmp,
                           r + 1)
    ELSE tmp

\* sc_starcos_create_data
CreateData(type, header, size) == [type |-> type, header |-> header, size |-> size]
NoCreateData == CreateData("unset", <<>>, <<>>)

process_acl_mf(file) ==
    LET ac == process_acl_entry(file, "SC_AC_OP_CREATE", STARCOS_AC_ALWAYS)
        tmp == process_acl_sm(file)
    IN  <<\H01, \H02, \H03, \H04, \H05, \H06, \H07, \H08>>
        \o <<(file.size \div 256) % 256, file.size % 256>>
        \o <<(file.size \div 1024) % 256, (file.size \div 4) % 256>>
        \o <<ac, ac, ac, ac>>
        \o <<tmp, tmp, tmp>>

\* a variant of process_acl_df that takes the AID length and the AID from
\* the name whether there is one or not
process_acl_df_aid_from_name(file) ==
    LET ac == process_acl_entry(file, "SC_AC_OP_CREATE", STARCOS_AC_ALWAYS)
        tmp == process_acl_sm(file)
        fid == <<(file.id \div 256) % 256, file.id % 256>>
        aid == SubSeq(file.name, 1, file.namelen % 256)
    IN  fid
        \o <<file.namelen % 256>>
        \o aid \o [i \in 1..(16 - Len(aid)) |-> 0]
        \o <<(file.size \div 1024) % 256, (file.size \div 4) % 256>>
        \o <<ac, ac>>
        \o <<tmp, tmp>>

process_acl_df(file) ==
    LET ac == process_acl_entry(file, "SC_AC_OP_CREATE", STARCOS_AC_ALWAYS)
        tmp == process_acl_sm(file)
        fid == <<(file.id \div 256) % 256, file.id % 256>>
        aid == IF file.namelen # 0 THEN SubSeq(file.name, 1, file.namelen % 256) ELSE fid
    IN  fid
        \o <<IF file.namelen # 0 THEN file.namelen % 256 ELSE 2>>
        \o aid \o [i \in 1..(16 - Len(aid)) |-> 0]
        \o <<(file.size \div 1024) % 256, (file.size \div 4) % 256>>
        \o <<ac, ac>>
        \o <<tmp, tmp>>

\* the header of an EF up to the SID byte
process_acl_ef(file) ==
    <<(file.id \div 256) % 256, file.id % 256>>
    \o <<process_acl_entry(file, "SC_AC_OP_READ", STARCOS_AC_ALWAYS),
          process_acl_entry(file, "SC_AC_OP_WRITE", STARCOS_AC_ALWAYS),
          process_acl_entry(file, "SC_AC_OP_ERASE", STARCOS_AC_ALWAYS)>>
    \o <<STARCOS_AC_ALWAYS, STARCOS_AC_ALWAYS, STARCOS_AC_ALWAYS, STARCOS_AC_ALWAYS>>
    \o <<\H00, \H00>>
    \o <<process_acl_sm_ef(file, 0, 0)>>
    \o <<\H00>>

\* the structure bytes of an EF: switch (file->type), the type being that
\* of a working EF
process_acl_ef_structure(file) ==
    LET t == sc_file_code(file.type)
    IN  IF t = sc_file_code(SC_FILE_EF_TRANSPARENT)
        THEN <<\H81, (file.size \div 256) % 256, file.size % 256>>
        ELSE IF t = sc_file_code(SC_FILE_EF_LINEAR_FIXED)
        THEN <<\H82, file.record_count % 256, file.record_length % 256>>
        ELSE IF t = sc_file_code(SC_FILE_EF_CYCLIC)
        THEN <<\H84, file.record_count % 256, file.record_length % 256>>
        ELSE <<>>

\* starcos_process_acl: [r, data]
starcos_process_acl(file) ==
    IF file.type = SC_FILE_TYPE_DF /\ file.id = \H3F00
    THEN [r |-> SC_SUCCESS, data |-> CreateData("SC_STARCOS_MF_DATA", process_acl_mf(file), <<>>)]
    ELSE IF file.type = SC_FILE_TYPE_DF
    THEN [r |-> SC_SUCCESS,
          data |-> CreateData("SC_STARCOS_DF_DATA", process_acl_df(file),
                              <<(file.size \div 256) % 256, file.size % 256>>)]
    ELSE IF file.type = SC_FILE_TYPE_WORKING_EF
    THEN LET tail == process_acl_ef_structure(file)
         IN  IF tail = <<>> THEN [r |-> SC_ERROR_INVALID_ARGUMENTS, data |-> NoCreateData]
             ELSE [r |-> SC_SUCCESS,
                   data |-> CreateData("SC_STARCOS_EF_DATA", process_acl_ef(file) \o tail, <<>>)]
    ELSE [r |-> SC_ERROR_INVALID_ARGUMENTS, data |-> NoCreateData]

\* a variant of create_apdu that reads the status word whatever the
\* transport returned
create_apdu_unchecked(m, apdu) ==
    {Result(t.m, sc_check_sw(t.sw1, t.sw2), NoFile) : t \in sc_transmit_apdu(m, apdu)}

\* one APDU whose status word is the result
create_apdu(m, apdu) ==
    {IF t.r # SC_SUCCESS THEN Result(t.m, t.r, NoFile)
     ELSE Result(t.m, sc_check_sw(t.sw1, t.sw2), NoFile)
     : t \in sc_transmit_apdu(m, apdu)}

starcos_create_mf(m, data) ==
    create_apdu(m, [sc_format_apdu(\HE0, \H00, \H00) EXCEPT
                       !.cla = \H80, !.lc = 19, !.data = SubSeq(data.header, 1, 19)])

starcos_create_df(m, data) ==
    LET len == 3 + data.header[3]
        register == [sc_format_apdu(\H52, data.size[1], data.size[2]) EXCEPT
                        !.cla = \H80, !.lc = len, !.data = SubSeq(data.header, 1, len)]
        create == [sc_format_apdu(\HE0, \H01, \H00) EXCEPT
                      !.cla = \H80, !.lc = 25, !.data = SubSeq(data.header, 1, 25)]
    IN  UNION {IF t.r # SC_SUCCESS THEN {Result(t.m, t.r, NoFile)}
               ELSE create_apdu(t.m, create)
               : t \in sc_transmit_apdu(m, register)}

starcos_create_ef(m, data) ==
    create_apdu(m, [sc_format_apdu(\HE0, \H03, \H00) EXCEPT
                       !.cla = \H80, !.lc = 16, !.data = SubSeq(data.header, 1, 16)])

\* a variant of starcos_create_end that sends CREATE END whatever the type
\* of the file
starcos_create_end_any_type(m, file) ==
    create_apdu(m, [sc_format_apdu(\HE0, \H02, \H00) EXCEPT
                       !.cla = \H80, !.lc = 2,
                       !.data = <<(file.id \div 256) % 256, file.id % 256>>])

starcos_create_end(m, file) ==
    IF file.type # SC_FILE_TYPE_DF THEN {Result(m, SC_ERROR_INVALID_ARGUMENTS, NoFile)}
    ELSE create_apdu(m, [sc_format_apdu(\HE0, \H02, \H00) EXCEPT
                            !.cla = \H80, !.lc = 2,
                            !.data = <<(file.id \div 256) % 256, file.id % 256>>])

starcos_create_file(m, file) ==
    LET a == starcos_process_acl(file)
    IN  IF file.type = SC_FILE_TYPE_DF
        THEN IF file.id = \H3F00
             THEN IF a.r # SC_SUCCESS THEN {Result(m, a.r, NoFile)}
                  ELSE starcos_create_mf(m, a.data)
             ELSE IF a.r # SC_SUCCESS THEN {Result(m, a.r, NoFile)}
                  ELSE starcos_create_df(m, a.data)
        ELSE IF file.type = SC_FILE_TYPE_WORKING_EF
        THEN IF a.r # SC_SUCCESS THEN {Result(m, a.r, NoFile)}
             ELSE starcos_create_ef(m, a.data)
        ELSE {Result(m, SC_ERROR_INVALID_ARGUMENTS, NoFile)}

---------------------------------------------------------------------------
(* Key generation, serial number *)

\* what a byte of rbuf the card's answer has not filled can hold
StackBytes == {\H00, \HCC}

\* rbuf up to the last byte read for a modulus of len bytes: the answer,
\* then bytes that were never written
gen_key_rbuf(resp, len) ==
    {[i \in 1..(18 + len) |-> IF i <= Len(resp) THEN resp[i] ELSE g[i]]
     : g \in [(Len(resp) + 1)..(18 + len) -> StackBytes]}

\* the modulus: malloc, then the bytes from rbuf[18] on in reverse order
gen_key_modulus(t, len) ==
    {Result(t.m, SC_ERROR_OUT_OF_MEMORY, NoFile)}
    \cup {[m |-> t.m, r |-> SC_SUCCESS, file |-> NoFile,
           out |-> [k \in 1..len |-> rbuf[18 + len - k + 1]]]
          : rbuf \in gen_key_rbuf(t.resp, len)}

starcos_gen_key(m, data) ==
    LET len == data.key_length \div 8
        generate == [sc_format_apdu(\H46, \H00, data.key_id) EXCEPT
                        !.le = 0, !.lc = 2,
                        !.data = <<(data.key_length \div 256) % 256, data.key_length % 256>>]
        read == [sc_format_apdu(\HF0, \H9C, \H00) EXCEPT
                    !.cla = \H80, !.data = <<data.key_id>>, !.lc = 1, !.le = 256]
    IN  UNION {IF t.r # SC_SUCCESS THEN {Result(t.m, t.r, NoFile)}
               ELSE IF t.sw1 # \H90 \/ t.sw2 # \H00
               THEN {Result(t.m, sc_check_sw(t.sw1, t.sw2), NoFile)}
               ELSE UNION {IF t2.r # SC_SUCCESS THEN {Result(t2.m, t2.r, NoFile)}
                           ELSE IF t2.sw1 # \H90 \/ t2.sw2 # \H00
                           THEN {Result(t2.m, sc_check_sw(t2.sw1, t2.sw2), NoFile)}
                           ELSE gen_key_modulus(t2, len)
                           : t2 \in sc_transmit_apdu(t.m, read)}
               : t \in sc_transmit_apdu(m, generate)}

\* the copy of card->serialnr handed to the caller
serialnr_out(m) ==
    [m |-> m, r |-> SC_SUCCESS, file |-> NoFile, out |-> SubSeq(m.serialnr.value, 1, m.serialnr.len)]

\* a variant of starcos_get_serialnr that does not keep the serial number
starcos_get_serialnr_no_cache(m, serial) ==
    IF ~serial THEN {Result(m, SC_ERROR_INVALID_ARGUMENTS, NoFile)}
    ELSE IF m.serialnr.len # 0 THEN {serialnr_out(m)}
    ELSE {IF t.r # SC_SUCCESS THEN Result(t.m, t.r, NoFile)
          ELSE IF t.sw1 # \H90 \/ t.sw2 # \H00 THEN Result(t.m, SC_ERROR_INTERNAL, NoFile)
          ELSE [m |-> t.m, r |-> SC_SUCCESS, file |-> NoFile, out |-> t.resp]
          : t \in sc_transmit_apdu(m, [sc_format_apdu(\HF6, \H00, \H00) EXCEPT
                                          !.cla = \H80, !.le = 256, !.lc = 0])}

\* serial tells whether the caller passed a buffer
starcos_get_serialnr(m, serial) ==
    IF ~serial THEN {Result(m, SC_ERROR_INVALID_ARGUMENTS, NoFile)}
    ELSE IF m.serialnr.len # 0 THEN {serialnr_out(m)}
    ELSE {IF t.r # SC_SUCCESS THEN Result(t.m, t.r, NoFile)
          ELSE IF t.sw1 # \H90 \/ t.sw2 # \H00 THEN Result(t.m, SC_ERROR_INTERNAL, NoFile)
          ELSE serialnr_out([t.m EXCEPT !.serialnr = [len |-> Len(t.resp), value |-> t.resp]])
          : t \in sc_transmit_apdu(m, [sc_format_apdu(\HF6, \H00, \H00) EXCEPT
                                          !.cla = \H80, !.le = 256, !.lc = 0])}

---------------------------------------------------------------------------
(* The state machine *)

\* the card handle and the card, as a handler sees them
Machine == [cache |-> cache, cache_valid |-> cache_valid, ex_data |-> ex_data, serialnr |-> serialnr, dev |-> dev, apdus |-> <<>>]

\* what a call found when it started
Pre == [cache |-> cache, cache_valid |-> cache_valid, ex_data |-> ex_data, serialnr |-> serialnr, dev |-> dev, env_fresh |-> env_fresh, serial_first |-> serial_first]

NoCall == [op |-> "idle", arg |-> [none |-> TRUE], ret |-> SC_SUCCESS, apdus |-> <<>>, file |-> NoFile, out |-> <<>>, pre |-> [none |-> TRUE]]

\* the caller has no call under way
Idle == last.op = "idle"

\* the handler returned res: the handle and the card are as it left them
Return(op, arg, res) ==
    /\ cache' = res.m.cache
    /\ cache_valid' = res.m.cache_valid
    /\ ex_data' = res.m.ex_data
    /\ serialnr' = res.m.serialnr
    /\ dev' = res.m.dev
    /\ last' = [op |-> op, arg |-> arg, ret |-> res.r, apdus |-> res.m.apdus, file |-> res.file, out |-> res.out, pre |-> Pre]

\* starcos_init has run on a handle the framework has just connected: the
\* extension state is zeroed, the cache is empty and, as the framework
\* holds the card locked or not, valid or not; the card has its MF selected
Init ==
    /\ cache = [current_path |-> [type |-> SC_PATH_TYPE_FILE_ID, len |-> 0, value |-> <<>>]]
    /\ cache_valid \in BOOLEAN
    /\ ex_data = [sec_ops |-> 0, fix_digestInfo |-> {}]
    /\ serialnr = [len |-> 0, value |-> <<>>]
    /\ dev = [df |-> PathName(MF), ef |-> FALSE]
    /\ env_fresh = FALSE
    /\ serial_first = <<>>
    /\ last = NoCall

\* select_file called with the path p of this type, with or without file_out
SelectFile(type, p, want) ==
    LET in_path == [type |-> type, len |-> Len(p), value |-> p]
    IN  \E res \in starcos_select_file(Machine, in_path, want) :
            /\ Return("select_file", [in_path |-> in_path, want |-> want], res)
            /\ UNCHANGED <<env_fresh, serial_first>>

SelectByFid ==
    /\ Idle
    /\ \E p \in Fids \cup {<<\H3F>>}, want \in BOOLEAN : SelectFile(SC_PATH_TYPE_FILE_ID, p, want)

SelectByAid ==
    /\ Idle
    /\ \E p \in Aids, want \in BOOLEAN : SelectFile(SC_PATH_TYPE_DF_NAME, p, want)

SelectByPath ==
    /\ Idle
    /\ \E p \in InputPaths, want \in BOOLEAN : SelectFile(SC_PATH_TYPE_PATH, p, want)

\* a path of a type the driver does not know
SelectByOther ==
    /\ Idle
    /\ \E want \in BOOLEAN : SelectFile("SC_PATH_TYPE_PATH_PROT", MF, want)

Logout ==
    /\ Idle
    /\ \E res \in starcos_logout(Machine) :
          Return("logout", [none |-> TRUE], res) /\ UNCHANGED <<env_fresh, serial_first>>

EraseCard ==
    /\ Idle
    /\ \E res \in starcos_erase_card(Machine) :
          Return("erase_card", [none |-> TRUE], res) /\ UNCHANGED <<env_fresh, serial_first>>

\* the environments callers ask for
EnvOperations == {SC_SEC_OPERATION_DECIPHER, SC_SEC_OPERATION_SIGN, SC_SEC_OPERATION_AUTHENTICATE, 4}
EnvFlags == SUBSET {"SC_SEC_ENV_ALG_REF_PRESENT", "SC_SEC_ENV_ALG_PRESENT", "SC_SEC_ENV_KEY_REF_PRESENT", "SC_SEC_ENV_KEY_REF_ASYMMETRIC"}
EnvPads == SUBSET {"SC_ALGORITHM_RSA_PAD_PKCS1", "SC_ALGORITHM_RSA_PAD_ISO9796"}
EnvHashes == {{}} \cup {{h} : h \in SC_ALGORITHM_RSA_HASHES}
Envs ==
    [operation : EnvOperations, flags : EnvFlags, algorithm : {"SC_ALGORITHM_RSA", "SC_ALGORITHM_DSA"},
     algorithm_flags : {p \cup h : p \in EnvPads, h \in EnvHashes},
     algorithm_ref : {\H12}, key_ref : {<<\H02>>}, key_ref_len : {1}]

\* a SIGN or AUTHENTICATE environment has been installed by this call
Installs(env, res) ==
    /\ res.r = SC_SUCCESS
    /\ env.operation \in {SC_SEC_OPERATION_SIGN, SC_SEC_OPERATION_AUTHENTICATE}

\* set_security_env called with env
SetEnv(env) ==
    \E res \in starcos_set_security_env(Machine, env) :
        /\ Return("set_security_env", [env |-> env], res)
        /\ env_fresh' = (Installs(env, res) \/ env_fresh)
        /\ UNCHANGED serial_first

SetSecurityEnv ==
    /\ Idle
    /\ \E env \in Envs : SetEnv(env)

\* the data callers sign: a hash, or more than an APDU holds
SignData(datalen) == [i \in 1..datalen |-> i % 256]

\* compute_signature called with datalen bytes and room for outlen
Sign(datalen, outlen) ==
    \E res \in starcos_compute_signature(Machine, SignData(datalen), datalen, outlen) :
        /\ Return("compute_signature", [datalen |-> datalen, outlen |-> outlen], res)
        /\ env_fresh' = FALSE
        /\ UNCHANGED serial_first

ComputeSignature ==
    /\ Idle
    /\ \E datalen \in {20, SC_MAX_APDU_BUFFER_SIZE + 1}, outlen \in {2, 256} : Sign(datalen, outlen)

\* the keys callers import: key_len bytes, or no key at all (a null key
\* pointer, which callers pass with mode 0 or with key_len 0 only)
KeySample(key_len) == [i \in 1..key_len |-> i % 256]
WKeyData ==
    {[mode |-> mode, kid |-> \H81, key_header |-> [i \in 1..12 |-> \H00],
      key_present |-> kp, key |-> IF kp THEN KeySample(key_len) ELSE <<>>, key_len |-> key_len]
     : mode \in {0, 1}, kp \in BOOLEAN, key_len \in 0..MaxKeyLen}

\* write_key called with data
ImportKey(data) ==
    /\ data.key_present \/ data.mode = 0 \/ data.key_len = 0
    /\ \E res \in starcos_write_key(Machine, data) :
          /\ Return("write_key", [mode |-> data.mode, key_present |-> data.key_present, key_len |-> data.key_len], res)
          /\ UNCHANGED <<env_fresh, serial_first>>

WriteKey ==
    /\ Idle
    /\ \E data \in WKeyData : ImportKey(data)

\* the access conditions callers give an operation: none, secure
\* messaging, a PIN (the SO PIN 0x81, another one, or without reference),
\* a PIN and secure messaging, or never
AclEntry(method, key_ref) == [method |-> {method}, key_ref |-> key_ref]
AclSamples ==
    { <<>>,
      <<AclEntry("SC_AC_PRO", SC_AC_KEY_REF_NONE)>>,
      <<AclEntry("SC_AC_CHV", \H81)>>,
      <<AclEntry("SC_AC_CHV", \H03)>>,
      <<AclEntry("SC_AC_CHV", SC_AC_KEY_REF_NONE)>>,
      <<AclEntry("SC_AC_CHV", \H81), AclEntry("SC_AC_PRO", SC_AC_KEY_REF_NONE)>>,
      <<AclEntry("SC_AC_NEVER", SC_AC_KEY_REF_NONE)>> }

AclOps == {"SC_AC_OP_SELECT", "SC_AC_OP_LOCK", "SC_AC_OP_DELETE", "SC_AC_OP_CREATE",
           "SC_AC_OP_READ", "SC_AC_OP_WRITE", "SC_AC_OP_ERASE"}

\* the files callers create
FileSamples ==
    {CreateFields(type, id, size, name, ef_structure,
                  [op \in AclOps |-> IF op = "SC_AC_OP_CREATE" THEN create
                                     ELSE IF op = "SC_AC_OP_READ" THEN read ELSE <<>>])
     : type \in {SC_FILE_TYPE_DF, SC_FILE_TYPE_WORKING_EF, "SC_FILE_TYPE_INTERNAL_EF"},
       id \in {\H3F00, \H5F01}, size \in {\H2000, \H0123},
       name \in {<<>>, <<\HA0, \H01, \H02>>},
       ef_structure \in {SC_FILE_EF_TRANSPARENT, SC_FILE_EF_LINEAR_FIXED, SC_FILE_EF_CYCLIC, SC_FILE_EF_UNKNOWN},
       create \in AclSamples, read \in AclSamples}

\* create_file called with file
Create(file) ==
    \E res \in starcos_create_file(Machine, file) :
        Return("create_file", [file |-> file], res) /\ UNCHANGED <<env_fresh, serial_first>>

\* card_ctl CREATE_END called with file
End(file) ==
    \E res \in starcos_create_end(Machine, file) :
        Return("create_end", [file |-> file], res) /\ UNCHANGED <<env_fresh, serial_first>>

CreateFile ==
    /\ Idle
    /\ \E file \in FileSamples : Create(file)

CreateEnd ==
    /\ Idle
    /\ \E file \in FileSamples : End(file)

\* the keys callers generate: short ones, of two and three bytes
GenKeyData == [key_id : {\H91}, key_length : {16, 24}]

GenKey ==
    /\ Idle
    /\ \E data \in GenKeyData :
          \E res \in starcos_gen_key(Machine, data) :
              Return("gen_key", [data |-> data], res) /\ UNCHANGED <<env_fresh, serial_first>>

GetSerialnr ==
    /\ Idle
    /\ \E serial \in BOOLEAN :
          \E res \in starcos_get_serialnr(Machine, serial) :
              /\ Return("get_serialnr", [serial |-> serial], res)
              /\ serial_first' = IF serial_first = <<>> /\ serial /\ res.r = SC_SUCCESS
                                 THEN <<res.out>> ELSE serial_first
              /\ UNCHANGED env_fresh

\* the caller has the result of the call and goes on
Resume ==
    /\ ~Idle
    /\ last' = NoCall
    /\ UNCHANGED <<cache, cache_valid, ex_data, serialnr, dev, env_fresh, serial_first>>

NextSelect == SelectByFid \/ SelectByAid \/ SelectByPath \/ SelectByOther \/ Logout \/ EraseCard \/ Resume

SpecSelect == Init /\ [][NextSelect]_vars

NextSign == SetSecurityEnv \/ ComputeSignature \/ Resume

SpecSign == Init /\ [][NextSign]_vars

NextKey == WriteKey \/ Resume

SpecKey == Init /\ [][NextKey]_vars

(* A session with every operation, each on few inputs *)

\* the paths of a short session: the MF, one DF, by FID and by path
SessionPaths ==
    {[type |-> SC_PATH_TYPE_FILE_ID, value |-> MF],
     [type |-> SC_PATH_TYPE_FILE_ID, value |-> <<\H5F, \H00>>],
     [type |-> SC_PATH_TYPE_DF_NAME, value |-> <<\HA0, \H01>>],
     [type |-> SC_PATH_TYPE_PATH, value |-> <<\H5F, \H00>>],
     [type |-> SC_PATH_TYPE_PATH, value |-> MF \o <<\H5F, \H00>>]}

SessionSelect ==
    /\ Idle
    /\ \E p \in SessionPaths, want \in BOOLEAN : SelectFile(p.type, p.value, want)

\* the environments of a short session: each operation, with PKCS#1 and
\* SHA-1, PKCS#1 and no hash, ISO 9796 and SHA-1
SessionEnvs ==
    {env \in Envs :
        /\ env.operation # 4
        /\ env.flags = {"SC_SEC_ENV_ALG_PRESENT", "SC_SEC_ENV_KEY_REF_PRESENT"}
        /\ env.algorithm = "SC_ALGORITHM_RSA"
        /\ env.algorithm_flags \in {{"SC_ALGORITHM_RSA_PAD_PKCS1", "SC_ALGORITHM_RSA_HASH_SHA1"},
                                     {"SC_ALGORITHM_RSA_PAD_PKCS1", "SC_ALGORITHM_RSA_HASH_NONE"},
                                     {"SC_ALGORITHM_RSA_PAD_ISO9796", "SC_ALGORITHM_RSA_HASH_SHA1"}}}

SessionSetSecurityEnv ==
    /\ Idle
    /\ \E env \in SessionEnvs : SetEnv(env)

SessionComputeSignature ==
    /\ Idle
    /\ Sign(20, 256)

\* the keys of a short session: none, one chunk, two chunks
SessionWriteKey ==
    /\ Idle
    /\ \E data \in {d \in WKeyData : d.key_len \in {0, 1, STARCOS_WKEY_CSIZE + 1}} : ImportKey(data)

\* the files of a short session: the MF, a DF and an EF, a file of
\* another type, with or without secure messaging
SessionFiles ==
    {f \in FileSamples :
        /\ f.size = \H2000 /\ f.name = <<>> /\ f.ef_structure = SC_FILE_EF_TRANSPARENT
        /\ f.acl["SC_AC_OP_READ"] = <<>>
        /\ Len(f.acl["SC_AC_OP_CREATE"]) <= 1
        /\ \A i \in DOMAIN f.acl["SC_AC_OP_CREATE"] : "SC_AC_PRO" \in f.acl["SC_AC_OP_CREATE"][i].method
        /\ f.type = SC_FILE_TYPE_DF \/ f.id = \H5F01}

SessionCreateFile ==
    /\ Idle
    /\ \E file \in SessionFiles : Create(file)

SessionCreateEnd ==
    /\ Idle
    /\ \E file \in SessionFiles : End(file)

NextSession ==
    \/ SessionSelect \/ Logout \/ EraseCard
    \/ SessionSetSecurityEnv \/ SessionComputeSignature
    \/ SessionWriteKey \/ GenKey \/ GetSerialnr
    \/ SessionCreateFile \/ SessionCreateEnd
    \/ Resume

SpecSession == Init /\ [][NextSession]_vars

NextCard == GenKey \/ GetSerialnr \/ Resume

SpecCard == Init /\ [][NextCard]_vars

NextCreate == CreateFile \/ CreateEnd \/ Resume

SpecCreate == Init /\ [][NextCreate]_vars

---------------------------------------------------------------------------
(* Properties of SELECT FILE, logout and erase, checked under SpecSelect *)

\* the call that has just returned is select_file with a path of this type
SelectCall(type) == last.op = "select_file" /\ last.arg.in_path.type = type

\* the SELECT FILE commands among the APDUs of the call
NumSelects == Cardinality({i \in DOMAIN last.apdus : last.apdus[i].ins = \HA4})

NumFids(p) == Len(p) \div 2
FidAt(p, k) == SubSeq(p, 2 * k - 1, 2 * k)

\* the FIDs of the longest prefix two paths share
SharedFids(c, p) ==
    LET n == IF NumFids(c) < NumFids(p) THEN NumFids(c) ELSE NumFids(p)
    IN  Cardinality({k \in 1..n : \A j \in 1..k : FidAt(c, j) = FidAt(p, j)})

\* a path select_file accepts, and what it is normalized to
WellFormed(in_path) ==
    /\ in_path.len % 2 = 0 /\ in_path.len > 0 /\ in_path.len <= 6
    /\ in_path.len = 6 => SubSeq(in_path.value, 1, 2) = MF
Normalized(p) == IF SubSeq(p, 1, 2) = MF THEN p ELSE MF \o p

\* the path the cache held, valid, when the call was made
CachedPath ==
    IF last.pre.cache_valid /\ last.pre.cache.current_path.type = SC_PATH_TYPE_PATH
    THEN last.pre.cache.current_path.value
    ELSE <<>>

\* C2: whenever cache_valid is true, the path cache names the DF that is
\* selected on the card (a cache that has never been filled names none).
C2_CacheNamesSelectedDF ==
    cache_valid /\ cache.current_path.len > 0
        => [type |-> cache.current_path.type, value |-> cache.current_path.value] = dev.df

\* C4: after erase_card returns, whatever the outcome, cache_valid is false.
C4_EraseInvalidatesCache == last.op = "erase_card" => ~cache_valid

\* C6 as stated: every select_file by path emits as many SELECT FILE
\* commands as the normalized path has FIDs beyond the longest prefix it
\* shares with the valid cached path.
C6_SelectsBeyondSharedPrefix ==
    SelectCall(SC_PATH_TYPE_PATH) /\ WellFormed(last.arg.in_path)
        => LET norm == Normalized(last.arg.in_path.value)
           IN  NumSelects = NumFids(norm) - SharedFids(CachedPath, norm)

\* no SELECT of the call was answered 6284 and sent a second time
NoSelectAgain ==
    \A i \in DOMAIN last.apdus : ~(last.apdus[i].sw1 = \H62 /\ last.apdus[i].sw2 = \H84)

\* every FID of p selected before its last one is a DF: the READ BINARY
\* that follows its SELECT is answered 6986
ThroughDFs(p) ==
    \A i \in DOMAIN last.apdus :
        /\ i > 1 /\ last.apdus[i].ins = \HB0
        /\ last.apdus[i - 1].data # FidAt(p, NumFids(p))
        => last.apdus[i].sw1 = \H69 /\ last.apdus[i].sw2 = \H86

DistinctFids(p) == \A j, k \in 1..NumFids(p) : j # k => FidAt(p, j) # FidAt(p, k)

\* C6: a successful select_file by path whose normalized path names no FID
\* twice, in which every FID selected before the last is a DF and no SELECT
\* had to be sent again, emits as many SELECT FILE commands as the
\* normalized path has FIDs beyond the longest prefix shared with the cached
\* path when the cache is valid, of type PATH and not longer than the
\* normalized path; otherwise it selects every FID, from the MF down.
C6_SelectsBeyondUsablePrefix ==
    /\ SelectCall(SC_PATH_TYPE_PATH) /\ WellFormed(last.arg.in_path)
    /\ last.ret = SC_SUCCESS /\ NoSelectAgain
    /\ ThroughDFs(Normalized(last.arg.in_path.value))
    /\ DistinctFids(Normalized(last.arg.in_path.value))
    => LET norm == Normalized(last.arg.in_path.value)
           usable == CachedPath # <<>> /\ NumFids(CachedPath) <= NumFids(norm)
       IN  /\ usable => NumSelects = NumFids(norm) - SharedFids(CachedPath, norm)
           /\ ~usable => /\ NumSelects = NumFids(norm)
                         /\ last.apdus[1].data = MF

\* a select below the cached DF: only the last of three FIDs is selected
C6_Witness ==
    /\ SelectCall(SC_PATH_TYPE_PATH) /\ last.ret = SC_SUCCESS /\ NoSelectAgain
    /\ last.arg.in_path.value = <<\H3F, \H00, \H5F, \H00, \H5F, \H01>>
    /\ CachedPath = <<\H3F, \H00, \H5F, \H00>>
    /\ NumSelects = 1

\* C7: after a successful select by FID (hi, lo) of a DF the cache has type
\* PATH and holds 3F 00 (length 2) when (hi, lo) is (3F, 00), and 3F 00 hi lo
\* (length 4) otherwise.
C7_SelectFidCachesDF ==
    SelectCall(SC_PATH_TYPE_FILE_ID) /\ last.ret = SC_SUCCESS /\ ~dev.ef
        => LET fid == last.arg.in_path.value
               cp == cache.current_path
           IN  /\ cp.type = SC_PATH_TYPE_PATH
               /\ SubSeq(cp.value, 1, 2) = <<\H3F, \H00>>
               /\ SubSeq(cp.value, cp.len - 1, cp.len) = fid
               /\ cp.len = Len(cp.value)
               /\ cp.len = IF fid = <<\H3F, \H00>> THEN 2 ELSE 4

\* the DF 5F 01 selected by FID while the cache named another DF
C7_Witness ==
    /\ SelectCall(SC_PATH_TYPE_FILE_ID) /\ last.ret = SC_SUCCESS /\ ~dev.ef
    /\ last.arg.in_path.value = <<\H5F, \H01>>
    /\ last.pre.cache.current_path.value = <<\H3F, \H00, \H5F, \H00>>
    /\ cache.current_path.value = <<\H3F, \H00, \H5F, \H01>>

\* the MF selected by FID while the cache named a DF below it
C7_WitnessMF ==
    /\ SelectCall(SC_PATH_TYPE_FILE_ID) /\ last.ret = SC_SUCCESS /\ ~dev.ef
    /\ last.arg.in_path.value = <<\H3F, \H00>>
    /\ last.pre.cache.current_path.len = 4
    /\ cache.current_path.len = 2

\* a path C8 calls malformed
Malformed(in_path) ==
    \/ in_path.len % 2 = 1
    \/ in_path.len = 0
    \/ in_path.len > 6
    \/ in_path.len = 6 /\ SubSeq(in_path.value, 1, 2) # <<\H3F, \H00>>

\* C8: select_file by path with a path of odd length, of length 0, of length
\* above 6, or of length 6 not starting with 3F 00 returns INVALID_ARGUMENTS,
\* transmits no APDU and leaves the path cache as it was.
C8_MalformedPathRejected ==
    SelectCall(SC_PATH_TYPE_PATH) /\ Malformed(last.arg.in_path)
        => /\ last.ret = SC_ERROR_INVALID_ARGUMENTS
           /\ last.apdus = <<>>
           /\ cache = last.pre.cache
           /\ cache_valid = last.pre.cache_valid
           /\ dev = last.pre.dev

\* a path of three FIDs that does not start at the MF, refused while the
\* cache is filled and valid
C8_Witness ==
    /\ SelectCall(SC_PATH_TYPE_PATH)
    /\ last.arg.in_path.value = <<\H5F, \H00, \H5F, \H01, \H5F, \H00>>
    /\ last.ret = SC_ERROR_INVALID_ARGUMENTS
    /\ cache_valid /\ cache.current_path.len = 4

\* the cache names the AID of the call
CachesAid(c) ==
    /\ c.current_path.type = SC_PATH_TYPE_DF_NAME
    /\ c.current_path.len = last.arg.in_path.len
    /\ c.current_path.value = last.arg.in_path.value

\* the call sent one APDU, SELECT FILE by name without FCI, for its AID
OneSelectByName ==
    /\ Len(last.apdus) = 1
    /\ last.apdus[1].ins = \HA4 /\ last.apdus[1].p1 = \H04 /\ last.apdus[1].p2 = \H0C
    /\ last.apdus[1].data = last.arg.in_path.value

\* C9 as stated: a successful select by AID leaves (DF_NAME, aid) in the
\* cache; a select of the AID the cache holds transmits no APDU; a select of
\* another AID transmits exactly one SELECT FILE with P1=04, P2=0C.
C9_AidCacheHit ==
    SelectCall(SC_PATH_TYPE_DF_NAME)
        => /\ last.ret = SC_SUCCESS => CachesAid(cache)
           /\ CachesAid(last.pre.cache) => last.apdus = <<>> /\ last.ret = SC_SUCCESS
           /\ ~CachesAid(last.pre.cache) => OneSelectByName

\* C9: a successful select by AID leaves (DF_NAME, aid) in the cache; while
\* cache_valid is true a select of the AID the cache holds transmits no
\* APDU; every other select by AID (another AID cached, or cache_valid
\* false) transmits exactly one SELECT FILE with P1=04, P2=0C.
C9_AidCacheHitWhenValid ==
    SelectCall(SC_PATH_TYPE_DF_NAME)
        => LET hit == last.pre.cache_valid /\ CachesAid(last.pre.cache)
           IN  /\ last.ret = SC_SUCCESS => CachesAid(cache)
               /\ hit => last.apdus = <<>> /\ last.ret = SC_SUCCESS
               /\ ~hit => OneSelectByName

\* the second of two selects of one AID, the cache valid
C9_Witness ==
    /\ SelectCall(SC_PATH_TYPE_DF_NAME)
    /\ last.pre.cache_valid /\ CachesAid(last.pre.cache)
    /\ last.apdus = <<>> /\ last.ret = SC_SUCCESS

\* a select of the other AID than the cached one
C9_WitnessOther ==
    /\ SelectCall(SC_PATH_TYPE_DF_NAME)
    /\ last.pre.cache_valid /\ last.pre.cache.current_path.type = SC_PATH_TYPE_DF_NAME
    /\ ~CachesAid(last.pre.cache)
    /\ last.ret = SC_SUCCESS /\ CachesAid(cache)

\* the i-th APDU of the call reached the card and was answered sw1 sw2
Answered(i, sw1, sw2) ==
    /\ i \in DOMAIN last.apdus
    /\ last.apdus[i].r = SC_SUCCESS
    /\ last.apdus[i].sw1 = sw1 /\ last.apdus[i].sw2 = sw2

\* the i-th APDU of the call was answered 9000 or 61xx
AnsweredOk(i) ==
    /\ i \in DOMAIN last.apdus
    /\ last.apdus[i].r = SC_SUCCESS
    /\ last.apdus[i].sw1 = \H61 \/ (last.apdus[i].sw1 = \H90 /\ last.apdus[i].sw2 = \H00)

\* C12: logout and erase_card return success when their single APDU is
\* answered 6985, and for any other status word but 9000 the error that
\* sc_check_sw gives for it.
C12_NoMFIsSuccess ==
    last.op \in {"logout", "erase_card"} /\ Len(last.apdus) = 1 /\ last.apdus[1].r = SC_SUCCESS
        => IF Answered(1, \H69, \H85) THEN last.ret = SC_SUCCESS
           ELSE last.ret = sc_check_sw(last.apdus[1].sw1, last.apdus[1].sw2)

C12_Witness ==
    /\ last.op = "logout" /\ Answered(1, \H69, \H85) /\ last.ret = SC_SUCCESS

\* a select_file by FID that reached starcos_select_fid
FidCall == SelectCall(SC_PATH_TYPE_FILE_ID) /\ last.arg.in_path.len = 2

\* the cached path starcos_select_fid writes for the FID of the call
FidCallCache == select_fid_update_cache(last.arg.in_path.value[1], last.arg.in_path.value[2])

\* the i-th APDU of the call is the SELECT of the call's FID without FCI
SelectNoFci(i) ==
    /\ i \in DOMAIN last.apdus
    /\ last.apdus[i].ins = \HA4 /\ last.apdus[i].p1 = \H00 /\ last.apdus[i].p2 = \H0C
    /\ last.apdus[i].data = last.arg.in_path.value

\* C19 as stated: in the FID selector, when the caller asked for no
\* descriptor and the SELECT is answered 6284, the SELECT is sent again
\* with P2 = 0x0C and, when that succeeds, the cache is set to the DF's path.
C19_SelectAgainWithoutDescriptor ==
    FidCall /\ ~last.arg.want /\ Answered(1, \H62, \H84)
        => /\ Len(last.apdus) = 2 /\ SelectNoFci(2)
           /\ AnsweredOk(2) => last.ret = SC_SUCCESS /\ cache.current_path = FidCallCache

\* C19: in the FID selector, when the caller asked for a descriptor (the
\* SELECT went out with P2 = 0x00) and the SELECT is answered 6284, the
\* SELECT is sent again with P2 = 0x0C and Le = 0 and, when that is answered
\* 9000 or 61xx, the call succeeds, the descriptor is that of a DF and the
\* cache is set to the DF's path; when the caller asked for no descriptor,
\* a SELECT answered 6284 is the only APDU, the call returns the error of
\* 6284 and the cache is left as it was.
C19_SelectAgainWithDescriptor ==
    FidCall /\ Answered(1, \H62, \H84)
        => IF last.arg.want
           THEN /\ last.apdus[1].p2 = \H00
                /\ Len(last.apdus) = 2 /\ SelectNoFci(2) /\ last.apdus[2].le = 0
                /\ AnsweredOk(2) => /\ last.ret = SC_SUCCESS
                                    /\ last.file.type = SC_FILE_TYPE_DF
                                    /\ cache.current_path = FidCallCache
           ELSE /\ last.apdus[1].p2 = \H0C
                /\ Len(last.apdus) = 1
                /\ last.ret = sc_check_sw(\H62, \H84)
                /\ cache = last.pre.cache

C19_Witness ==
    /\ FidCall /\ last.arg.want /\ Answered(1, \H62, \H84) /\ AnsweredOk(2)
    /\ last.arg.in_path.value # MF
    /\ cache # last.pre.cache

\* the caller asked for no descriptor and the SELECT was answered 6284
C19_WitnessNoDescriptor ==
    FidCall /\ ~last.arg.want /\ Answered(1, \H62, \H84) /\ last.ret # SC_SUCCESS

\* the probe of the call: the second APDU, a READ BINARY of one byte
ProbeAt(i) ==
    /\ i \in DOMAIN last.apdus
    /\ last.apdus[i].ins = \HB0 /\ last.apdus[i].p1 = 0 /\ last.apdus[i].p2 = 0
    /\ last.apdus[i].le = 1

\* C20: in the FID selector, when the SELECT is answered 9000 or 61xx one
\* READ BINARY follows it and nothing else; when it is answered 6986 the
\* object is a DF (the descriptor says so, the cache is set to its path),
\* otherwise it is not and the cache is left as it was.
C20_ProbeClassifies ==
    FidCall /\ AnsweredOk(1)
        => /\ Len(last.apdus) = 2 /\ ProbeAt(2)
           /\ IF Answered(2, \H69, \H86)
              THEN /\ last.ret = SC_SUCCESS
                   /\ cache.current_path = FidCallCache
                   /\ last.arg.want => last.file.type = SC_FILE_TYPE_DF
              ELSE /\ cache = last.pre.cache
                   /\ last.arg.want /\ last.ret = SC_SUCCESS => last.file.type # SC_FILE_TYPE_DF

\* an EF selected with success while the cache names a DF
C20_Witness ==
    /\ FidCall /\ AnsweredOk(1) /\ Answered(2, \H90, \H00) /\ last.ret = SC_SUCCESS
    /\ last.arg.want /\ last.file.type = SC_FILE_TYPE_WORKING_EF
    /\ last.pre.cache.current_path.len = 4 /\ cache = last.pre.cache

---------------------------------------------------------------------------
(* Properties of the security environment and of signing, checked under   *)
(* SpecSign                                                                *)

\* C1: after compute_signature returns, on every outcome, sec_ops and
\* fix_digestInfo are 0.
C1_SignatureClearsState ==
    last.op = "compute_signature" => ex_data.sec_ops = 0 /\ ex_data.fix_digestInfo = {}

\* C3: compute_signature called while no set_security_env for SIGN or
\* AUTHENTICATE has succeeded since init or since the previous
\* compute_signature returned gives INVALID_ARGUMENTS and transmits no APDU.
C3_SignatureNeedsFreshEnv ==
    last.op = "compute_signature" /\ ~last.pre.env_fresh
        => last.ret = SC_ERROR_INVALID_ARGUMENTS /\ last.apdus = <<>>

\* the call that has just returned is set_security_env for SIGN with hash
\* NONE or MD5+SHA1, and it succeeded
SignEnvWithoutCardHash ==
    /\ last.op = "set_security_env"
    /\ last.arg.env.operation = SC_SEC_OPERATION_SIGN
    /\ last.arg.env.algorithm_flags \cap SC_ALGORITHM_RSA_HASHES
           \in {{"SC_ALGORITHM_RSA_HASH_NONE"}, {"SC_ALGORITHM_RSA_HASH_MD5_SHA1"}}
    /\ last.ret = SC_SUCCESS

\* C5 as stated: set_security_env for SIGN with hash NONE or MD5+SHA1 that
\* succeeds leaves sec_ops = AUTHENTICATE, whatever the other flags.
C5_SignFallsBackToAuthenticate ==
    SignEnvWithoutCardHash => ex_data.sec_ops = SC_SEC_OPERATION_AUTHENTICATE

\* C5: set_security_env for SIGN with hash NONE or MD5+SHA1 that succeeds
\* leaves sec_ops = AUTHENTICATE when the caller gives no algorithm
\* reference of its own (ALG_REF_PRESENT clear) and names the algorithm RSA
\* (ALG_PRESENT set).
C5_SignFallsBackWithoutAlgRef ==
    /\ SignEnvWithoutCardHash
    /\ "SC_SEC_ENV_ALG_REF_PRESENT" \notin last.arg.env.flags
    /\ "SC_SEC_ENV_ALG_PRESENT" \in last.arg.env.flags
    /\ last.arg.env.algorithm = "SC_ALGORITHM_RSA"
    => /\ ex_data.sec_ops = SC_SEC_OPERATION_AUTHENTICATE
       /\ ex_data.fix_digestInfo = last.arg.env.algorithm_flags
       /\ Len(last.apdus) = 1 /\ last.apdus[1].p2 = \HA4

\* SIGN with PKCS#1 and hash MD5+SHA1 asked for while a SIGN environment
\* was installed: INTERNAL AUTHENTICATE is installed instead
C5_Witness ==
    /\ SignEnvWithoutCardHash
    /\ last.arg.env.flags = {"SC_SEC_ENV_ALG_PRESENT", "SC_SEC_ENV_KEY_REF_PRESENT"}
    /\ last.arg.env.algorithm = "SC_ALGORITHM_RSA"
    /\ "SC_ALGORITHM_RSA_HASH_MD5_SHA1" \in last.arg.env.algorithm_flags
    /\ last.pre.ex_data.sec_ops = SC_SEC_OPERATION_SIGN
    /\ ex_data.sec_ops = SC_SEC_OPERATION_AUTHENTICATE

---------------------------------------------------------------------------
(* Properties of key import, checked under SpecKey *)

\* the data chunks among the APDUs of the call: those with tag C2
Chunks == SelectSeq(last.apdus, LAMBDA a : a.data[1] = \HC2)

\* the bytes of key a chunk carries, after tag, length, kid and offset
ChunkLen(a) == Len(a.data) - 5

\* C10: write_key with key_len bytes of key, every APDU answered 9000,
\* transmits ceil(key_len / 124) data chunks; each but the last carries 124
\* bytes, the last key_len mod 124 bytes, or 124 when that is 0.
C10_WriteKeyChunks ==
    /\ last.op = "write_key" /\ last.arg.key_present
    /\ \A i \in DOMAIN last.apdus : last.apdus[i].sw1 = \H90 /\ last.apdus[i].sw2 = \H00
    => LET n == (last.arg.key_len + 123) \div 124
       IN  /\ Len(Chunks) = n
           /\ \A i \in 1..(n - 1) : ChunkLen(Chunks[i]) = 124
           /\ n > 0 => ChunkLen(Chunks[n]) =
                          IF last.arg.key_len % 124 = 0 THEN 124 ELSE last.arg.key_len % 124
           /\ \A i \in 1..n : Chunks[i].lc = Len(Chunks[i].data)

\* a key of two full chunks and one byte, installed with its header
C10_Witness ==
    /\ last.op = "write_key" /\ last.arg.key_present /\ last.arg.mode = 0
    /\ last.arg.key_len = 249
    /\ last.ret = SC_SUCCESS
    /\ Len(Chunks) = 3 /\ ChunkLen(Chunks[3]) = 1

---------------------------------------------------------------------------
(* Properties of the sequence of APDUs of set_security_env and            *)
(* compute_signature, checked under SpecSign                              *)

\* the i-th APDU of the call has this instruction and these parameters
Command(i, ins, p1, p2) ==
    /\ i \in DOMAIN last.apdus
    /\ last.apdus[i].ins = ins /\ last.apdus[i].p1 = p1 /\ last.apdus[i].p2 = p2

\* the i-th APDU of the call reached the card and was not answered 9000
Refused(i) ==
    /\ i \in DOMAIN last.apdus
    /\ last.apdus[i].r = SC_SUCCESS
    /\ ~(last.apdus[i].sw1 = \H90 /\ last.apdus[i].sw2 = \H00)

\* set_security_env for SIGN, the algorithm reference to be taken from the
\* padding and the hash, which name one
SignEnvWithMappedHash ==
    /\ last.op = "set_security_env"
    /\ last.arg.env.operation = SC_SEC_OPERATION_SIGN
    /\ "SC_SEC_ENV_ALG_REF_PRESENT" \notin last.arg.env.flags
    /\ "SC_SEC_ENV_ALG_PRESENT" \in last.arg.env.flags
    /\ last.arg.env.algorithm = "SC_ALGORITHM_RSA"
    /\ LET f == last.arg.env.algorithm_flags
       IN  IF "SC_ALGORITHM_RSA_PAD_PKCS1" \in f
           THEN f \cap {"SC_ALGORITHM_RSA_HASH_SHA1", "SC_ALGORITHM_RSA_HASH_RIPEMD160",
                        "SC_ALGORITHM_RSA_HASH_MD5"} # {}
           ELSE /\ "SC_ALGORITHM_RSA_PAD_ISO9796" \in f
                /\ f \cap {"SC_ALGORITHM_RSA_HASH_SHA1", "SC_ALGORITHM_RSA_HASH_RIPEMD160"} # {}

\* the first MSE is for COMPUTE SIGNATURE and, answered 9000, the only one
SignEnvInstalledFirst ==
    /\ Command(1, \H22, \H41, \HB6)
    /\ Answered(1, \H90, \H00)
          => /\ Len(last.apdus) = 1 /\ last.ret = SC_SUCCESS
             /\ ex_data = [sec_ops |-> SC_SEC_OPERATION_SIGN, fix_digestInfo |-> {}]

\* the second MSE is for INTERNAL AUTHENTICATE and, answered 9000, installs it
AuthenticateEnvInstalledNext ==
    /\ Len(last.apdus) = 2 /\ Command(2, \H22, \H41, \HA4)
    /\ Answered(2, \H90, \H00)
          => /\ last.ret = SC_SUCCESS
             /\ ex_data = [sec_ops |-> SC_SEC_OPERATION_AUTHENTICATE,
                           fix_digestInfo |-> last.arg.env.algorithm_flags]

\* C16 as stated: set_security_env for SIGN with a mapped hash first sends
\* MSE 22 41 B6; answered 9000, the call records SIGN with fix_digestInfo 0
\* and sends nothing more; on any other status word it next sends MSE
\* 22 41 A4 and, when that is answered 9000, records AUTHENTICATE with
\* fix_digestInfo the requested algorithm flags.
C16_SignThenAuthenticate ==
    SignEnvWithMappedHash
        => /\ SignEnvInstalledFirst
           /\ Refused(1) => AuthenticateEnvInstalledNext

\* C16: as above, but the MSE 22 41 A4 follows a refused MSE 22 41 B6 only
\* when PKCS#1 padding was asked for; with ISO 9796 padding alone the call
\* sends nothing more, returns SC_ERROR_INVALID_ARGUMENTS and leaves
\* sec_ops and fix_digestInfo as they were.
C16_SignThenAuthenticateWithPkcs1 ==
    SignEnvWithMappedHash
        => /\ SignEnvInstalledFirst
           /\ Refused(1)
                 => IF "SC_ALGORITHM_RSA_PAD_PKCS1" \in last.arg.env.algorithm_flags
                    THEN AuthenticateEnvInstalledNext
                    ELSE /\ Len(last.apdus) = 1
                         /\ last.ret = SC_ERROR_INVALID_ARGUMENTS
                         /\ ex_data = last.pre.ex_data

\* the MSE for COMPUTE SIGNATURE was refused and the one for INTERNAL
\* AUTHENTICATE accepted
C16_Witness ==
    /\ SignEnvWithMappedHash /\ Refused(1) /\ Answered(2, \H90, \H00)
    /\ ex_data.sec_ops = SC_SEC_OPERATION_AUTHENTICATE
    /\ "SC_ALGORITHM_RSA_HASH_SHA1" \in ex_data.fix_digestInfo

\* ISO 9796 padding alone, the MSE for COMPUTE SIGNATURE refused
C16_WitnessIso9796 ==
    /\ SignEnvWithMappedHash /\ Refused(1)
    /\ "SC_ALGORITHM_RSA_PAD_PKCS1" \notin last.arg.env.algorithm_flags
    /\ last.ret = SC_ERROR_INVALID_ARGUMENTS

\* compute_signature was called with this operation installed
SignatureCall(sec_ops) ==
    last.op = "compute_signature" /\ last.pre.ex_data.sec_ops = sec_ops

\* with SIGN installed: PSO hash first, PSO compute signature after it was
\* answered 9000 and only then, and nothing else
HashThenSign ==
    /\ Len(last.apdus) \in {1, 2}
    /\ Command(1, \H2A, \H90, \H81)
    /\ Len(last.apdus) = 2 <=> Answered(1, \H90, \H00)
    /\ Len(last.apdus) = 2 => Command(2, \H2A, \H9E, \H9A)

\* C17 as stated: with SIGN installed compute_signature sends PSO hash
\* first and PSO compute signature only after PSO hash was answered 9000;
\* with AUTHENTICATE installed it sends exactly one INTERNAL AUTHENTICATE
\* and no PSO command.
C17_DispatchOnSecOps ==
    /\ SignatureCall(SC_SEC_OPERATION_SIGN) => HashThenSign
    /\ SignatureCall(SC_SEC_OPERATION_AUTHENTICATE)
          => Len(last.apdus) = 1 /\ Command(1, \H88, \H10, \H00)

\* C17: input longer than SC_MAX_APDU_BUFFER_SIZE is refused before any
\* APDU; otherwise with SIGN installed compute_signature sends PSO hash
\* first and PSO compute signature only after PSO hash was answered 9000,
\* and with AUTHENTICATE installed it sends one INTERNAL AUTHENTICATE and no
\* PSO command, or nothing at all when the DigestInfo it has to prepend
\* cannot be encoded.
C17_DispatchOnSecOpsAndLength ==
    last.op = "compute_signature"
        => IF last.arg.datalen > SC_MAX_APDU_BUFFER_SIZE
           THEN last.apdus = <<>> /\ last.ret = SC_ERROR_INVALID_ARGUMENTS
           ELSE /\ SignatureCall(SC_SEC_OPERATION_SIGN) => HashThenSign
                /\ SignatureCall(SC_SEC_OPERATION_AUTHENTICATE)
                      => \/ Len(last.apdus) = 1 /\ Command(1, \H88, \H10, \H00)
                         \/ /\ last.apdus = <<>>
                            /\ last.pre.ex_data.fix_digestInfo # {}
                            /\ last.ret = SC_ERROR_INTERNAL

\* PSO hash answered 9000 and PSO compute signature after it
C17_Witness ==
    /\ SignatureCall(SC_SEC_OPERATION_SIGN) /\ Answered(1, \H90, \H00)
    /\ Command(2, \H2A, \H9E, \H9A) /\ last.ret = SC_SUCCESS /\ last.out # <<>>

\* AUTHENTICATE installed and nothing sent
C17_WitnessNothingSent ==
    SignatureCall(SC_SEC_OPERATION_AUTHENTICATE) /\ last.apdus = <<>>

\* C18: after a successful set_security_env for DECIPHER fix_digestInfo is
\* 0 and sec_ops is none, whatever was called before.
C18_DecipherLeavesNoSignState ==
    /\ last.op = "set_security_env"
    /\ last.arg.env.operation = SC_SEC_OPERATION_DECIPHER
    /\ last.ret = SC_SUCCESS
    => ex_data = [sec_ops |-> 0, fix_digestInfo |-> {}]

---------------------------------------------------------------------------
(* Properties of file creation, checked under SpecCreate *)

\* create_file has sent the header of the file: the data of its last APDU
\* with instruction E0
HeaderSent ==
    /\ last.op = "create_file"
    /\ last.apdus # <<>>
    /\ last.apdus[Len(last.apdus)].ins = \HE0

Header == last.apdus[Len(last.apdus)].data

\* the SM bytes of the header: three at the end of that of an MF, two at
\* the end of that of a DF, one before the SID byte of that of an EF
SMBytes ==
    CASE last.apdus[Len(last.apdus)].p1 = \H00 -> {Header[17], Header[18], Header[19]}
      [] last.apdus[Len(last.apdus)].p1 = \H01 -> {Header[24], Header[25]}
      [] last.apdus[Len(last.apdus)].p1 = \H03 -> {Header[12]}

\* the CREATE ACL of the file contains method PRO
CreateWithPro ==
    \E i \in DOMAIN last.arg.file.acl["SC_AC_OP_CREATE"] :
        "SC_AC_PRO" \in last.arg.file.acl["SC_AC_OP_CREATE"][i].method

\* C13: for every file whose header is encoded (MF, DF or EF), every SM
\* byte of the header is 0x03 if the CREATE ACL of the file contains
\* method PRO, and 0x00 otherwise.
C13_SMBytesFollowCreateAcl ==
    HeaderSent => SMBytes = {IF CreateWithPro THEN \H03 ELSE \H00}

---------------------------------------------------------------------------
(* Properties of get_serialnr, checked under SpecCard *)

\* get_serialnr was called with a buffer
SerialCall == last.op = "get_serialnr" /\ last.arg.serial

\* C14 as stated: once one get_serialnr has succeeded, every later one
\* sends no APDU and returns the same serial number.
C14_SerialCachedAfterSuccess ==
    SerialCall /\ last.pre.serial_first # <<>>
        => /\ last.apdus = <<>>
           /\ last.ret = SC_SUCCESS
           /\ last.out = last.pre.serial_first[1]

\* C14: get_serialnr sends GET CARD DATA (80 F6 00 00) only while no serial
\* number is cached: once one call has succeeded with a serial number that
\* is not empty, every later call with a buffer sends no APDU and returns
\* the same serial number; a call answered 9000 without data succeeds with
\* an empty serial number and caches nothing.
C14_SerialCachedAfterNonEmptySuccess ==
    SerialCall
        => /\ last.apdus # <<>>
                 => /\ last.pre.serialnr.len = 0
                    /\ Len(last.apdus) = 1 /\ Command(1, \HF6, \H00, \H00)
                    /\ last.ret = SC_SUCCESS => serialnr = [len |-> Len(last.out), value |-> last.out]
           /\ last.pre.serial_first # <<>> /\ last.pre.serial_first[1] # <<>>
                 => /\ last.apdus = <<>>
                    /\ last.ret = SC_SUCCESS
                    /\ last.out = last.pre.serial_first[1]
                    /\ serialnr = last.pre.serialnr

\* a call served from the cache
C14_Witness ==
    /\ SerialCall /\ last.pre.serial_first # <<>> /\ last.pre.serial_first[1] # <<>>
    /\ last.apdus = <<>> /\ last.out = <<\H01, \H02, \H03, \H04>>

\* a call that sends the APDU after one that succeeded
C14_WitnessEmpty ==
    SerialCall /\ last.pre.serial_first = << <<>> >> /\ last.apdus # <<>>

---------------------------------------------------------------------------
(* Properties of every operation, checked under SpecSession *)

\* the transport failed on the i-th APDU of the call
TransportFailed(i) == i \in DOMAIN last.apdus /\ last.apdus[i].r # SC_SUCCESS

\* C11: when the transport fails on an APDU of an operation, the operation
\* returns the transport's error and sends no further APDU.
C11_TransportErrorEndsCall ==
    \A i \in DOMAIN last.apdus :
        TransportFailed(i) => i = Len(last.apdus) /\ last.ret = last.apdus[i].r

\* the transport failed on the second SELECT of a selection by path
C11_Witness ==
    /\ SelectCall(SC_PATH_TYPE_PATH)
    /\ Len(last.apdus) >= 2 /\ AnsweredOk(1)
    /\ TransportFailed(Len(last.apdus)) /\ last.apdus[Len(last.apdus)].ins = \HA4
    /\ last.ret = "SC_ERROR_CARD_REMOVED"

\* the last APDU of the call reached the card and was answered with a
\* status word that is neither 9000 nor 61xx
EndsRefused ==
    /\ last.apdus # <<>>
    /\ Refused(Len(last.apdus))
    /\ last.apdus[Len(last.apdus)].sw1 # \H61

\* C15: whenever the APDU that ends a select_file (a SELECT FILE), a file
\* creation, write_key, gen_key, set_security_env, compute_signature or
\* get_serialnr is answered with a failing status word, the operation
\* returns the error sc_check_sw gives for that status word.
C15_FailingStatusWordTranslated ==
    /\ last.op \in {"select_file", "create_file", "create_end", "write_key", "gen_key",
                    "set_security_env", "compute_signature", "get_serialnr"}
    /\ EndsRefused
    /\ last.op = "select_file" => last.apdus[Len(last.apdus)].ins = \HA4
    => last.ret = sc_check_sw(last.apdus[Len(last.apdus)].sw1, last.apdus[Len(last.apdus)].sw2)

---------------------------------------------------------------------------
(* Properties of the creation of a DF, checked under SpecCreate *)

\* create_file was called for a DF that is not the MF
CreateDfCall ==
    /\ last.op = "create_file"
    /\ last.arg.file.type = SC_FILE_TYPE_DF /\ last.arg.file.id # \H3F00

FileFid == <<(last.arg.file.id \div 256) % 256, last.arg.file.id % 256>>

\* the AID of the file to create: its name, or its FID if it has none
FileAid == IF last.arg.file.namelen = 0 THEN FileFid ELSE last.arg.file.name

\* the i-th APDU of the call is REGISTER DF for the file
RegisterDfAt(i) ==
    /\ Command(i, \H52, (last.arg.file.size \div 256) % 256, last.arg.file.size % 256)
    /\ last.apdus[i].cla = \H80
    /\ last.apdus[i].lc = 3 + Len(FileAid)
    /\ last.apdus[i].data = FileFid \o <<Len(FileAid)>> \o FileAid

\* the i-th APDU of the call is CREATE DF for the file
CreateDfAt(i) ==
    /\ Command(i, \HE0, \H01, \H00)
    /\ last.apdus[i].cla = \H80
    /\ last.apdus[i].lc = 25 /\ Len(last.apdus[i].data) = 25
    /\ SubSeq(last.apdus[i].data, 1, 3 + Len(FileAid)) = FileFid \o <<Len(FileAid)>> \o FileAid

\* C21 as stated: creating a DF transmits exactly two APDUs, REGISTER DF
\* and then CREATE DF.
C21_RegisterThenCreate ==
    CreateDfCall => Len(last.apdus) = 2 /\ RegisterDfAt(1) /\ CreateDfAt(2)

\* C21: creating a DF transmits REGISTER DF (INS 0x52, P1/P2 = file size
\* high/low, Lc = 3 + AID length) first and, unless the transport failed
\* on it, CREATE DF (INS 0xE0, P1=0x01, Lc = 25) second and nothing else;
\* for a file without AID the AID length is 2 and the AID is the FID.
C21_RegisterThenCreateUnlessTransportFails ==
    CreateDfCall
        => /\ RegisterDfAt(1)
           /\ IF TransportFailed(1) THEN Len(last.apdus) = 1
              ELSE Len(last.apdus) = 2 /\ CreateDfAt(2)

\* a DF without AID has been registered and created
C21_Witness ==
    /\ CreateDfCall /\ last.arg.file.namelen = 0
    /\ Len(last.apdus) = 2 /\ AnsweredOk(1) /\ AnsweredOk(2)

\* the transport failed on REGISTER DF
C21_WitnessTransport == CreateDfCall /\ TransportFailed(1)

---------------------------------------------------------------------------
(* Properties of the creation of an EF, checked under SpecCreate *)

\* create_file was called for a working EF
CreateEfCall ==
    last.op = "create_file" /\ last.arg.file.type = SC_FILE_TYPE_WORKING_EF

\* the structure tail the EF structure of the file asks for, <<>> when it
\* is none of transparent, linear-fixed and cyclic
StructureTail ==
    LET file == last.arg.file
    IN  CASE file.ef_structure = SC_FILE_EF_TRANSPARENT
               -> <<\H81, (file.size \div 256) % 256, file.size % 256>>
          [] file.ef_structure = SC_FILE_EF_LINEAR_FIXED
               -> <<\H82, file.record_count % 256, file.record_length % 256>>
          [] file.ef_structure = SC_FILE_EF_CYCLIC
               -> <<\H84, file.record_count % 256, file.record_length % 256>>
          [] OTHER -> <<>>

\* C22: the 3-byte structure tail of an encoded EF header follows the EF
\* structure of the file: {0x81, size.hi, size.lo} for transparent,
\* {0x82, record_count, record_length} for linear-fixed, {0x84,
\* record_count, record_length} for cyclic; an EF of any other structure
\* is rejected with INVALID_ARGUMENTS and nothing is sent.
C22_TailFollowsStructure ==
    CreateEfCall
        => IF StructureTail = <<>>
           THEN last.ret = SC_ERROR_INVALID_ARGUMENTS /\ last.apdus = <<>>
           ELSE /\ Len(last.apdus) = 1 /\ Command(1, \HE0, \H03, \H00)
                /\ SubSeq(last.apdus[1].data, 14, 16) = StructureTail

---------------------------------------------------------------------------
(* Properties of CREATE END, checked under SpecCreate *)

\* the i-th APDU of the call is CREATE END
CreateEndAt(i) ==
    /\ i \in DOMAIN last.apdus
    /\ last.apdus[i].ins = \HE0 /\ last.apdus[i].p1 = \H02

\* C23: create_file never transmits CREATE END (INS 0xE0, P1=0x02),
\* whether it creates an MF, a DF or an EF; CREATE END reaches the card
\* only through card_ctl CREATE_END, which transmits it, with the FID as
\* data, only for a file of type DF and otherwise returns
\* INVALID_ARGUMENTS without transmitting.
C23_CreateEndOnlyExplicit ==
    /\ last.op = "create_file" => \A i \in DOMAIN last.apdus : ~CreateEndAt(i)
    /\ last.op = "create_end"
          => IF last.arg.file.type = SC_FILE_TYPE_DF
             THEN /\ Len(last.apdus) = 1 /\ Command(1, \HE0, \H02, \H00)
                  /\ last.apdus[1].data = <<(last.arg.file.id \div 256) % 256, last.arg.file.id % 256>>
             ELSE last.ret = SC_ERROR_INVALID_ARGUMENTS /\ last.apdus = <<>>
    /\ last.op \notin {"create_file", "create_end"} => \A i \in DOMAIN last.apdus : ~CreateEndAt(i)

\* CREATE_END was asked for an EF and refused
C23_Witness ==
    /\ last.op = "create_end" /\ last.arg.file.type = SC_FILE_TYPE_WORKING_EF
    /\ last.ret = SC_ERROR_INVALID_ARGUMENTS

\* CREATE END was sent for a DF and accepted
C23_WitnessSent == last.op = "create_end" /\ AnsweredOk(1)

---------------------------------------------------------------------------
(* Properties of the status words of the creation of a DF, checked under  *)
(* SpecCreate                                                             *)

\* C30: creating a DF returns success only if the card accepted both
\* REGISTER DF and CREATE DF, and CREATE DF is not transmitted after
\* REGISTER DF was answered with a failing status word.
C30_RegisterRefusedEndsCreate ==
    CreateDfCall
        => /\ last.ret = SC_SUCCESS
                 => Len(last.apdus) = 2 /\ Answered(1, \H90, \H00) /\ Answered(2, \H90, \H00)
           /\ Refused(1) => Len(last.apdus) = 1

---------------------------------------------------------------------------
(* Properties of the sequence of APDUs of write_key, checked under SpecKey *)

\* the i-th APDU of the call carries the key header
KeyHeaderAt(i) == i \in DOMAIN last.apdus /\ last.apdus[i].data[1] = \HC1

\* C24: write_key transmits the key header APDU exactly when mode == 0,
\* and before any data chunk; as soon as the key header or a data chunk is
\* answered with a status word other than 9000, no further APDU is
\* transmitted and the call fails with the translation of that status
\* word; with mode == 0 and no key material the call ends after the key
\* header, with success if the card accepted it.
C24_HeaderFirstAndStopAtRefusal ==
    last.op = "write_key"
        => /\ last.arg.mode = 0 => KeyHeaderAt(1)
           /\ \A i \in DOMAIN last.apdus :
                 /\ last.apdus[i].cla = \H80 /\ Command(i, \HF4, last.arg.mode, \H00)
                 /\ KeyHeaderAt(i) => i = 1 /\ last.arg.mode = 0
                 /\ ~KeyHeaderAt(i) => last.apdus[i].data[1] = \HC2
                 /\ Refused(i)
                       => /\ i = Len(last.apdus)
                          /\ last.ret # SC_SUCCESS
                          /\ last.ret = sc_check_sw(last.apdus[i].sw1, last.apdus[i].sw2)
           /\ last.arg.mode = 0 /\ ~last.arg.key_present
                 => /\ Len(last.apdus) = 1
                    /\ Answered(1, \H90, \H00) => last.ret = SC_SUCCESS

\* a key installed with its header, the second data chunk refused
C24_Witness ==
    /\ last.op = "write_key" /\ last.arg.mode = 0 /\ last.arg.key_len = 249
    /\ Len(last.apdus) = 3 /\ KeyHeaderAt(1) /\ Refused(3)
    /\ last.ret # SC_SUCCESS

\* a key header installed without key material
C24_WitnessNoKey ==
    /\ last.op = "write_key" /\ last.arg.mode = 0 /\ ~last.arg.key_present
    /\ Len(last.apdus) = 1 /\ last.ret = SC_SUCCESS

\* the key header refused
C24_WitnessHeaderRefused ==
    /\ last.op = "write_key" /\ last.arg.key_present /\ last.arg.key_len > 0
    /\ Len(last.apdus) = 1 /\ KeyHeaderAt(1) /\ Refused(1)

---------------------------------------------------------------------------
(* Properties of the offsets of the data chunks of write_key, checked     *)
(* under SpecKey                                                          *)

\* the offset a data chunk carries
ChunkOffset(a) == a.data[4] * 256 + a.data[5]

\* the number of key bytes of the first n data chunks of the call
RECURSIVE SentIn(_)
SentIn(n) == IF n = 0 THEN 0 ELSE SentIn(n - 1) + ChunkLen(Chunks[n])

\* C25: each data chunk of write_key carries as its offset the total
\* number of key bytes transmitted in the preceding chunks (0 for the
\* first) and the bytes of the key buffer from that offset on, so that the
\* chunks cover the key buffer in order, contiguously, without gap or
\* overlap; the loop ends when the whole buffer has been sent: a call that
\* succeeds has sent key_len bytes, and no call sends more.
C25_ChunksCoverKey ==
    last.op = "write_key" /\ last.arg.key_present
        => /\ \A i \in DOMAIN Chunks :
                 /\ ChunkOffset(Chunks[i]) = SentIn(i - 1)
                 /\ ChunkLen(Chunks[i]) > 0
                 /\ SubSeq(Chunks[i].data, 6, Len(Chunks[i].data))
                       = SubSeq(KeySample(last.arg.key_len), SentIn(i - 1) + 1, SentIn(i))
           /\ SentIn(Len(Chunks)) <= last.arg.key_len
           /\ last.ret = SC_SUCCESS => SentIn(Len(Chunks)) = last.arg.key_len

\* a key of three chunks sent whole: offsets 0, 124 and 248
C25_Witness ==
    /\ last.op = "write_key" /\ last.arg.key_present /\ last.arg.key_len = 250
    /\ last.ret = SC_SUCCESS
    /\ Len(Chunks) = 3 /\ ChunkOffset(Chunks[2]) = 124 /\ ChunkOffset(Chunks[3]) = 248

---------------------------------------------------------------------------
(* Properties of logout, checked under SpecSession *)

\* C26: logout transmits exactly one APDU, SELECT MF (00 A4 00 0C with
\* data 3F 00 and no response expected), and leaves the path cache,
\* cache_valid, the cached serial number and the extension state (sec_ops,
\* fix_digestInfo) as they were.
C26_LogoutKeepsState ==
    last.op = "logout"
        => /\ Len(last.apdus) = 1
           /\ last.apdus[1].cla = \H00 /\ Command(1, \HA4, \H00, \H0C)
           /\ last.apdus[1].lc = 2 /\ last.apdus[1].data = <<\H3F, \H00>>
           /\ last.apdus[1].le = 0
           /\ cache = last.pre.cache
           /\ cache_valid = last.pre.cache_valid
           /\ serialnr = last.pre.serialnr
           /\ ex_data = last.pre.ex_data

\* a logout the card accepted, with a valid cache below the MF, a cached
\* serial number and a security environment installed
C26_Witness ==
    /\ last.op = "logout" /\ last.ret = SC_SUCCESS /\ AnsweredOk(1)
    /\ cache_valid /\ Len(cache.current_path.value) > 2
    /\ serialnr.len > 0
    /\ ex_data.sec_ops # 0

---------------------------------------------------------------------------
(* The extension state, checked under SpecSign *)

\* C27: in every reachable state sec_ops is one of none (0), SIGN and
\* AUTHENTICATE, and fix_digestInfo is nonzero exactly when sec_ops is
\* AUTHENTICATE; hence compute_signature never sends INTERNAL AUTHENTICATE
\* (00 88 10 00) from a state without fix_digestInfo, where the input
\* would be copied to the APDU without passing through sc_pkcs1_encode.
C27_ExtensionStateConsistent ==
    /\ ex_data.sec_ops \in {0, SC_SEC_OPERATION_SIGN, SC_SEC_OPERATION_AUTHENTICATE}
    /\ ex_data.fix_digestInfo # {} <=> ex_data.sec_ops = SC_SEC_OPERATION_AUTHENTICATE
    /\ last.op = "compute_signature"
          => \A i \in DOMAIN last.apdus :
                last.apdus[i].ins = \H88
                    => /\ last.pre.ex_data.sec_ops = SC_SEC_OPERATION_AUTHENTICATE
                       /\ last.pre.ex_data.fix_digestInfo # {}

\* INTERNAL AUTHENTICATE was refused and the state cleared
C27_Witness ==
    /\ last.op = "compute_signature" /\ Command(1, \H88, \H10, \H00) /\ Refused(1)
    /\ last.pre.ex_data.fix_digestInfo # {}
    /\ ex_data.sec_ops = 0

\* AUTHENTICATE is installed
C27_WitnessAuthenticate ==
    /\ last.op = "set_security_env" /\ last.ret = SC_SUCCESS
    /\ ex_data.sec_ops = SC_SEC_OPERATION_AUTHENTICATE

\* SIGN is installed after AUTHENTICATE was
C27_WitnessSignAfterAuthenticate ==
    /\ last.op = "set_security_env" /\ last.ret = SC_SUCCESS
    /\ last.pre.ex_data.sec_ops = SC_SEC_OPERATION_AUTHENTICATE
    /\ ex_data.sec_ops = SC_SEC_OPERATION_SIGN

---------------------------------------------------------------------------
(* Properties of the descriptor select_file hands back, checked under     *)
(* SpecSelect                                                             *)

\* C28: whenever select_file returns success and the caller asked for a
\* file descriptor, a completed descriptor (magic set) has been handed
\* back, whether the selection is by FID, by AID or by path, the calls
\* served as cache hits included.
C28_SuccessHandsBackDescriptor ==
    last.op = "select_file" /\ last.arg.want /\ last.ret = SC_SUCCESS
        => last.file.magic = SC_FILE_MAGIC

---------------------------------------------------------------------------
(* Properties of the selection of the final FID alone, checked under      *)
(* SpecSelect                                                             *)

\* the path of a select_file by path, normalized
CallPath == select_path_unify(last.arg.in_path.value)

\* bMatch as select_file by path computed it when the call was made
CallMatch == select_path_bMatch(last.pre, CallPath, Len(CallPath))

\* select_file by path took the case where the path length minus bMatch
\* is 2: it sent only the SELECT of the final FID
FinalFidOnly ==
    /\ SelectCall(SC_PATH_TYPE_PATH) /\ ~Malformed(last.arg.in_path)
    /\ last.pre.cache_valid /\ CallMatch >= 0
    /\ Len(CallPath) - CallMatch = 2

\* C29: when select_file by path transmits only a SELECT of the final FID
\* (the case where the path length minus bMatch is 2), the cached current
\* directory is the parent directory of the requested file: the cached
\* path equals the normalized path without its last FID.
C29_FinalFidSelectedInParent ==
    FinalFidOnly
        => /\ NumSelects >= 1 /\ last.apdus[1].data = FidAt(CallPath, NumFids(CallPath))
           /\ CachedPath = SubSeq(CallPath, 1, Len(CallPath) - 2)

---------------------------------------------------------------------------
(* Properties of a failing set_security_env, checked under SpecSign *)

\* set_security_env returned an error
EnvFailed == last.op = "set_security_env" /\ last.ret # SC_SUCCESS

\* C31: a set_security_env call that returns an error (invalid arguments,
\* a failing status word on its last MSE, or a transport failure) leaves
\* sec_ops and fix_digestInfo exactly as they were before the call.
C31_FailedEnvKeepsState ==
    EnvFailed
        => /\ ex_data.sec_ops = last.pre.ex_data.sec_ops
           /\ ex_data.fix_digestInfo = last.pre.ex_data.fix_digestInfo

\* SIGN being installed, a set_security_env for SIGN whose two MSE are
\* refused fails
C31_Witness ==
    /\ EnvFailed /\ last.pre.ex_data.sec_ops = SC_SEC_OPERATION_SIGN
    /\ Len(last.apdus) = 2 /\ Refused(1) /\ Refused(2)

\* AUTHENTICATE being installed, a set_security_env fails on the transport
C31_WitnessTransport ==
    /\ EnvFailed /\ last.pre.ex_data.sec_ops = SC_SEC_OPERATION_AUTHENTICATE
    /\ last.pre.ex_data.fix_digestInfo # {}
    /\ TransportFailed(Len(last.apdus))

\* AUTHENTICATE being installed, a set_security_env is rejected without
\* any APDU
C31_WitnessInvalid ==
    /\ EnvFailed /\ last.pre.ex_data.sec_ops = SC_SEC_OPERATION_AUTHENTICATE
    /\ last.apdus = <<>> /\ last.ret = SC_ERROR_INVALID_ARGUMENTS

---------------------------------------------------------------------------
(* Termination of select_file, checked under SpecSelect *)

\* the i-th APDU of the call is a SELECT by FID
SelectFidAt(i) ==
    /\ i \in DOMAIN last.apdus
    /\ last.apdus[i].ins = \HA4 /\ last.apdus[i].p1 = \H00

\* the i-th APDU of the call is a SELECT that asked for the FCI and was
\* answered 6284: the FID selector sends it again
SentAgainAt(i) ==
    /\ SelectFidAt(i) /\ last.apdus[i].p2 = \H00
    /\ Answered(i, \H62, \H84)

\* the calls of the FID selector the call made: each sends one SELECT, and
\* one more after an answer 6284 to a SELECT that asked for the FCI
FidSelectorCalls ==
    Cardinality({i \in DOMAIN last.apdus : SelectFidAt(i)})
    - Cardinality({i \in DOMAIN last.apdus : SentAgainAt(i)})

\* C32: every select_file call terminates: it returns after a bounded
\* number of APDUs, and a selection by path invokes the FID selector at
\* most three times in total, counting the calls made through its
\* recursive call, for every cache content the driver itself can produce.
C32_AtMostThreeFidSelections ==
    last.op = "select_file"
        => /\ FidSelectorCalls <= 3
           /\ Len(last.apdus) <= 2 * FidSelectorCalls + 1
           /\ \A i \in DOMAIN last.apdus : SentAgainAt(i) => SelectFidAt(i + 1)

\* a path of three FIDs selected from the MF down, the cache not usable
C32_Witness ==
    /\ SelectCall(SC_PATH_TYPE_PATH) /\ last.ret = SC_SUCCESS
    /\ FidSelectorCalls = 3

\* a path of three FIDs selected through the recursive call: one SELECT of
\* the directory, one of the file
C32_WitnessRecursive ==
    /\ SelectCall(SC_PATH_TYPE_PATH) /\ ~Malformed(last.arg.in_path)
    /\ last.pre.cache_valid /\ CallMatch >= 0 /\ Len(CallPath) - CallMatch > 2
    /\ last.ret = SC_SUCCESS /\ FidSelectorCalls = 2

===========================================================================
